---- MODULE Spec2Model ----
(***************************************************************************)
(* A model of the query-intent resolution and result-aggregation pipeline  *)
(* of backend/intelligent_ai_engine.py (IntelligentAIEngine) and of the    *)
(* tracker gateway backend/jira_client.py (JiraClient).                    *)
(*                                                                         *)
(* Python values are encoded as follows.  A str is a TLA+ string whose     *)
(* characters are code points U+0001 to U+00FF (ISO 8859-1); the character *)
(* classes below are those of Python on that range.  An                    *)
(* optional int (None or an int) is a sequence: <<>> is None, <<n>> is n.  *)
(* A dict key that is missing holds Absent, a JSON null holds Null.        *)
(***************************************************************************)
EXTENDS Integers, Sequences, FiniteSets, TLC

VARIABLES
    jira_client,            \* self.jira_client: "None", "JiraClient" or "Stub"
    server,                 \* the tracker behind the gateway, one per query
    cur,                    \* index of the query being executed
    pc,                     \* position of the running coroutine
    jql,                    \* _execute_jql: argument jql
    query_intent,           \* _execute_jql: argument query_intent
    start_at,               \* _execute_jql: local start_at
    all_issues,             \* _execute_jql: local all_issues
    total_count_from_api,   \* _execute_jql: local total_count_from_api
    requests,               \* the calls made to jira_client.search, in order
    jql_result,             \* the value _execute_jql returned
    raised,                 \* the exception caught by _execute_jql, if any
    results,                \* the records handed to the aggregation
    total_count,            \* the declared total handed to the aggregation
    retrieved_count,        \* the retrieved count handed to the aggregation
    data_summary,           \* what _create_detailed_analysis returned
    analysis_dict,          \* _create_detailed_analysis: local analysis and the
                            \* place of its loop over the records
    client,                 \* self.client: "None" or "OpenAI"
    confluence_client,      \* self.confluence_client: "None" or "Confluence"
    conversation_context,   \* self.conversation_context
    user_query,             \* process_query: argument user_query
    projects,               \* _fallback_processing: the keys of the projects
    query_analysis,         \* what _analyze_query returned
    frame,                  \* the caller that awaits _execute_jql
    all_results,            \* process_query: local all_results
    doc_searches,           \* the calls made to confluence_client.search
    confluence_results,     \* _process_confluence_query: local confluence_results
    result,                 \* the value process_query returned
    ai_engine,              \* app_state.ai_engine: "None" or "Engine"
    chat,                   \* chat_endpoint: the request of each session
    history,                \* every turn handed to add_context, in order
    completed,              \* the chat requests answered, in order
    app_state,              \* the module-level app_state of main.py
    handlers                \* the request handlers of main.py in flight

execVars == <<jql, query_intent, start_at, all_issues, total_count_from_api,
              requests, jql_result, raised>>
aggVars == <<results, total_count, retrieved_count, data_summary, analysis_dict>>

procVars == <<client, confluence_client, conversation_context, user_query,
              projects, query_analysis, frame, all_results, doc_searches,
              confluence_results, result>>

chatVars == <<ai_engine, chat, history, completed, app_state, handlers>>

vars == <<jira_client, server, cur, pc, execVars, aggVars, procVars, chatVars>>

(***************************************************************************)
(* Bounds of the model.                                                    *)
(***************************************************************************)
MaxTotal == 237
MaxRecords == 3
MaxDeclared == 10
MaxWords == 3

(***************************************************************************)
(* Python values.                                                          *)
(***************************************************************************)
Absent == "<absent>"
Null == "<null>"
None == <<>>
Some(n) == <<n>>
IsNone(o) == Len(o) = 0
Val(o) == o[1]

Min(a, b) == IF a < b THEN a ELSE b

(***************************************************************************)
(* str.lower() and the substring test `needle in haystack`.  The cased     *)
(* capitals of the range are A to Z, U+00C0 to U+00D6 and U+00D8 to        *)
(* U+00DE; each lowers to the one character 32 code points above it.       *)
(***************************************************************************)
LowerChar(c) ==
    CASE c = "A" -> "a" [] c = "B" -> "b" [] c = "C" -> "c" [] c = "D" -> "d"
      [] c = "E" -> "e" [] c = "F" -> "f" [] c = "G" -> "g" [] c = "H" -> "h"
      [] c = "I" -> "i" [] c = "J" -> "j" [] c = "K" -> "k" [] c = "L" -> "l"
      [] c = "M" -> "m" [] c = "N" -> "n" [] c = "O" -> "o" [] c = "P" -> "p"
      [] c = "Q" -> "q" [] c = "R" -> "r" [] c = "S" -> "s" [] c = "T" -> "t"
      [] c = "U" -> "u" [] c = "V" -> "v" [] c = "W" -> "w" [] c = "X" -> "x"
      [] c = "Y" -> "y" [] c = "Z" -> "z" [] c = "À" -> "à" [] c = "Á" -> "á"
      [] c = "Â" -> "â" [] c = "Ã" -> "ã" [] c = "Ä" -> "ä" [] c = "Å" -> "å"
      [] c = "Æ" -> "æ" [] c = "Ç" -> "ç" [] c = "È" -> "è" [] c = "É" -> "é"
      [] c = "Ê" -> "ê" [] c = "Ë" -> "ë" [] c = "Ì" -> "ì" [] c = "Í" -> "í"
      [] c = "Î" -> "î" [] c = "Ï" -> "ï" [] c = "Ð" -> "ð" [] c = "Ñ" -> "ñ"
      [] c = "Ò" -> "ò" [] c = "Ó" -> "ó" [] c = "Ô" -> "ô" [] c = "Õ" -> "õ"
      [] c = "Ö" -> "ö" [] c = "Ø" -> "ø" [] c = "Ù" -> "ù" [] c = "Ú" -> "ú"
      [] c = "Û" -> "û" [] c = "Ü" -> "ü" [] c = "Ý" -> "ý" [] c = "Þ" -> "þ"
      [] OTHER -> c

\* Every character lowered, the string being halved to keep the recursion
\* shallow.
RECURSIVE Lower(_)
Lower(s) ==
    IF Len(s) <= 1 THEN LowerChar(s)
    ELSE LET half == Len(s) \div 2
         IN  Lower(SubSeq(s, 1, half)) \o Lower(SubSeq(s, half + 1, Len(s)))

Contains(needle, haystack) ==
    \E i \in 1..(Len(haystack) - Len(needle) + 1) :
        SubSeq(haystack, i, i + Len(needle) - 1) = needle

(***************************************************************************)
(* Tracker records.  An issue is flattened: status stands for              *)
(* fields.status.name, assignee for fields.assignee.displayName, and so    *)
(* on.  isdict is FALSE for an entry of the page that is no JSON object.   *)
(***************************************************************************)
Issue(k, s, st, ty, pr, asg, rep) ==
    [isdict |-> TRUE, key |-> k, summary |-> s, status |-> st, issuetype |-> ty,
     priority |-> pr, assignee |-> asg, reporter |-> rep]

NotADict == [Issue(Absent, Absent, Absent, Absent, Absent, Absent, Absent)
                EXCEPT !.isdict = FALSE]

NoKeyNoSummary == Issue(Absent, Absent, "Open", "Bug", "High", "Alice", "Bob")

\* The i-th record matching the query on the tracker.
IssueAt(i) ==
    Issue("K-" \o ToString(i), "summary",
          IF i % 2 = 0 THEN "Done" ELSE "Open",
          IF i % 3 = 0 THEN "Bug" ELSE "Story",
          IF i % 5 = 0 THEN Null ELSE "High",
          IF i % 3 = 1 THEN "Alice" ELSE IF i % 3 = 2 THEN "Bob" ELSE Null,
          IF i % 4 = 0 THEN Absent ELSE "Carol")

IssuesFrom(first, last) == [i \in 1..(last - first + 1) |-> IssueAt(first + i - 1)]

(***************************************************************************)
(* The tracker's REST endpoint.  A server holds T matching records.  A     *)
(* body is what resp.json() yields: shape is "dict", "list" or "other";    *)
(* has_issues and has_total say whether the dict has the keys 'issues' and *)
(* 'total'; total is None for a JSON null.                                 *)
(***************************************************************************)
PageSize == 100

Body(sh, hi, is, ht, t) ==
    [shape |-> sh, has_issues |-> hi, issues |-> is, has_total |-> ht, total |-> t]

\* The page a well-behaved server returns for startAt = offset, maxResults = n.
FaithfulBody(T, offset, n) ==
    Body("dict", TRUE, IssuesFrom(offset + 1, Min(offset + n, T)), TRUE, Some(T))

\* What a misbehaving server may answer instead.
FlakyBodies(T, offset, n) ==
    LET fb == FaithfulBody(T, offset, n)
        is == fb.issues
    IN  { fb,
          [fb EXCEPT !.has_total = FALSE],                  \* no 'total' key
          [fb EXCEPT !.total = None],                       \* "total": null
          [fb EXCEPT !.total = Some(T + PageSize)],         \* overstated total
          [fb EXCEPT !.total = Some(Len(is))],              \* understated total
          [fb EXCEPT !.total = Some(0)],                    \* "total": 0
          [fb EXCEPT !.shape = "list"],                     \* a bare list
          [fb EXCEPT !.has_issues = FALSE, !.has_total = FALSE], \* an error object
          [fb EXCEPT !.shape = "other"],                    \* not JSON data
          [fb EXCEPT !.issues = FaithfulBody(T, 0, n).issues], \* startAt ignored
          [fb EXCEPT !.issues = SubSeq(is, 1, Len(is) \div 2)], \* capped page
          [fb EXCEPT !.issues = IF is = <<>> THEN <<NoKeyNoSummary>>
                                ELSE [is EXCEPT ![1] = NoKeyNoSummary]],
          [fb EXCEPT !.issues = IF is = <<>> THEN <<NotADict>>
                                ELSE [is EXCEPT ![Len(is)] = NotADict]] }

\* The outcomes of the HTTP GET of jira_client.py line 76.
Transport(srv, offset, n) ==
    IF srv.flaky
    THEN {[kind |-> "ok", body |-> b] : b \in FlakyBodies(srv.T, offset, n)}
         \cup {[kind |-> k, body |-> FaithfulBody(srv.T, offset, n)] :
                  k \in {"http_error", "exception"}}
    ELSE {[kind |-> "ok", body |-> FaithfulBody(srv.T, offset, n)]}

(***************************************************************************)
(* JiraClient.search: a non-200 status and any exception both become the   *)
(* empty page {"issues": [], "total": 0}.  On status 200 the body is       *)
(* returned after the log call of line 80 has evaluated                    *)
(* data.get('issues', []): resp.json() raises on a body that is no JSON,   *)
(* and a body that is no dict has no method get, so both end in the except *)
(* branch as well.                                                         *)
(***************************************************************************)
EmptyPage == Body("dict", TRUE, <<>>, TRUE, Some(0))

Returns(v) == [raises |-> FALSE, value |-> v]
Raises == [raises |-> TRUE, value |-> EmptyPage]

JiraClientSearch(t) ==
    IF t.kind = "ok" /\ t.body.shape = "dict" THEN Returns(t.body)
    ELSE Returns(EmptyPage)

\* A substitute gateway (a test double): it hands the body on and lets a
\* transport failure propagate as an exception.
StubSearch(t) ==
    IF t.kind = "ok" THEN Returns(t.body) ELSE Raises

\* await self.jira_client.search(...) on a client that is not None, the HTTP
\* exchange having gone as t.
ClientSearch(gateway, t) ==
    IF gateway = "JiraClient" THEN JiraClientSearch(t) ELSE StubSearch(t)

(***************************************************************************)
(* IntelligentAIEngine._execute_jql.                                       *)
(***************************************************************************)
CountIntents == {"count_items", "story_count", "issue_count"}

\* A variant of IsCountOnly that looks for the words in the query as typed.
IsCountOnlyCaseSensitive(q, intent) ==
    \/ intent \in CountIntents
    \/ Contains("count", q)
    \/ Contains("group by", q)

\* lines 454-460
IsCountOnly(q, intent) ==
    \/ intent \in CountIntents
    \/ Contains("count", Lower(q))
    \/ Contains("group by", Lower(q))

\* The dict _execute_jql returns; error is Absent when it has no 'error' key.
JqlResult(rs, total, retrieved, co, err) ==
    [results |-> rs, total_count |-> total, retrieved_count |-> retrieved,
     is_count_only |-> co, error |-> err]

\* A variant of ErrorResult that hands back what the loop had accumulated.
ErrorResultKeepsPages(msg) ==
    JqlResult(all_issues, Some(Len(all_issues)), Len(all_issues), FALSE, msg)

\* lines 567-575: the except branch
ErrorResult(msg) == JqlResult(<<>>, Some(0), 0, FALSE, msg)

\* search_result.get('total', 0)
GetTotal(sr) == IF sr.has_total THEN sr.total ELSE Some(0)

\* A variant of CountOnlyResult that hands back the records of the page.
CountOnlyResultWithPage(sr) ==
    IF sr.shape = "dict"
    THEN JqlResult(sr.issues, GetTotal(sr), Len(sr.issues), TRUE, Absent)
    ELSE JqlResult(<<>>, Some(0), 0, TRUE, Absent)

\* lines 467-483: the count-only branch, the search having returned sr
CountOnlyResult(sr) ==
    IF sr.shape = "dict"
    THEN JqlResult(<<>>, GetTotal(sr), 0, TRUE, Absent)
    ELSE JqlResult(<<>>, Some(0), 0, TRUE, Absent)

\* lines 545-550: whether the filter skips the item
IsSkipped(issue) ==
    LET key == IF issue.key = Absent THEN "UNKNOWN" ELSE issue.key
        summary == IF issue.summary \in {Absent, Null} THEN "" ELSE issue.summary
    IN  key = "UNKNOWN" /\ summary = ""

\* lines 543-554
FilterIssues(issues) == SelectSeq(issues, LAMBDA issue : ~IsSkipped(issue))

\* total_count_from_api or len(filtered_results)
TotalOr(total, n) == IF IsNone(total) \/ Val(total) = 0 THEN Some(n) ELSE total

\* line 545: issue.get raises AttributeError on an entry that is no dict
FilterRaises(issues) == \E i \in 1..Len(issues) : ~issues[i].isdict

\* lines 540-565: what follows the loop
FetchResult(issues, total) ==
    LET filtered_results == FilterIssues(issues)
    IN  JqlResult(filtered_results, TotalOr(total, Len(filtered_results)),
                  Len(filtered_results), FALSE, Absent)

\* A variant of PageEnd that goes on after every full page, whatever the total.
PageEndIgnoresTotal(issues, has_more_pages, acc, total) ==
    IF issues = <<>>
    THEN [ctl |-> "break", all_issues |-> acc, total |-> total]
    ELSE IF Len(issues) < PageSize
         THEN [ctl |-> "break", all_issues |-> acc \o issues, total |-> total]
         ELSE [ctl |-> "continue", all_issues |-> acc \o issues, total |-> total]

\* lines 528-538: the end of one iteration of the loop
PageEnd(issues, has_more_pages, acc, total) ==
    IF issues = <<>>
    THEN [ctl |-> "break", all_issues |-> acc, total |-> total]
    ELSE IF ~has_more_pages \/ Len(issues) < PageSize
         THEN [ctl |-> "break", all_issues |-> acc \o issues, total |-> total]
         ELSE [ctl |-> "continue", all_issues |-> acc \o issues, total |-> total]

\* A variant of PageStep whose has_more_pages test is <= instead of <.
PageStepInclusive(sr, start, acc, total) ==
    IF sr.shape = "dict" /\ sr.has_issues
    THEN LET t == IF IsNone(total) THEN GetTotal(sr) ELSE total
         IN  IF IsNone(t)
             THEN [ctl |-> "raise", all_issues |-> acc, total |-> t]
             ELSE PageEnd(sr.issues, (start + Len(sr.issues)) <= Val(t), acc, t)
    ELSE IF sr.shape = "list"
         THEN PageEnd(sr.issues, FALSE, acc, Some(Len(sr.issues)))
         ELSE [ctl |-> "break", all_issues |-> acc, total |-> total]

\* lines 509-538: one iteration of the loop, the search having returned sr
PageStep(sr, start, acc, total) ==
    IF sr.shape = "dict" /\ sr.has_issues
    THEN LET t == IF IsNone(total) THEN GetTotal(sr) ELSE total
         IN  IF IsNone(t)     \* int < None raises TypeError
             THEN [ctl |-> "raise", all_issues |-> acc, total |-> t]
             ELSE PageEnd(sr.issues, (start + Len(sr.issues)) < Val(t), acc, t)
    ELSE IF sr.shape = "list"
         THEN PageEnd(sr.issues, FALSE, acc, Some(Len(sr.issues)))
         ELSE [ctl |-> "break", all_issues |-> acc, total |-> total]

\* What the log keeps of one call of jira_client.search: the query it serves,
\* its arguments, how the HTTP exchange went, and the total the returned page declares (None when the
\* call raised or the value returned has no integer 'total').
DeclaredTotal(out) ==
    IF ~out.raises /\ out.value.shape = "dict" /\ out.value.has_total
    THEN out.value.total ELSE None

Request(offset, n, t, out) ==
    [query |-> cur, start_at |-> offset, max_results |-> n,
     transport |-> t.kind, declared |-> DeclaredTotal(out)]

\* _execute_jql returns r to its caller.
Return(r) ==
    /\ jql_result' = r
    /\ pc' = "returned"

\* lines 567-575: exception e raised inside the try block
Except(e) ==
    /\ raised' = e
    /\ Return(ErrorResult(e))

\* The argument jql is a list when the tracker fallback of a document search
\* hands on the queries of a comparison (line 149).
ArgIsList == frame = "docs" /\ query_analysis.is_list

\* lines 454-460 on any argument: jql.lower() is reached when the intent is
\* no count intent
CountOnlyMode ==
    IF ArgIsList THEN query_intent \in CountIntents
    ELSE IsCountOnly(jql, query_intent)

\* line 456: a list has no method lower, AttributeError
ExecuteLowerRaises ==
    /\ pc = "execute"
    /\ ArgIsList
    /\ query_intent \notin CountIntents
    /\ Except("AttributeError")
    /\ UNCHANGED <<chatVars, jira_client, server, cur, jql, query_intent, start_at,
                   all_issues, total_count_from_api, requests, aggVars,
                   procVars>>

\* The count-only branch, lines 462-483.
ExecuteCountOnly ==
    /\ pc = "execute"
    /\ CountOnlyMode
    /\ UNCHANGED <<chatVars, jira_client, server, cur, jql, query_intent, start_at,
                   all_issues, total_count_from_api, aggVars, procVars>>
    /\ IF jira_client = "None"
       THEN /\ Except("AttributeError")
            /\ UNCHANGED requests
       ELSE \E t \in Transport(server[cur], 0, 0) :
              LET out == ClientSearch(jira_client, t)
              IN  /\ requests' = Append(requests, Request(0, 0, t, out))
                  /\ IF out.raises
                     THEN Except("search failed")
                     ELSE /\ Return(CountOnlyResult(out.value))
                          /\ UNCHANGED raised

\* One iteration of the pagination loop, lines 501-538, with what follows the
\* loop (lines 540-565) when the iteration leaves it.
ExecuteFetchPage ==
    /\ pc = "execute"
    /\ ~ArgIsList
    /\ ~IsCountOnly(jql, query_intent)
    /\ UNCHANGED <<chatVars, jira_client, server, cur, jql, query_intent, aggVars,
                   procVars>>
    /\ IF jira_client = "None"
       THEN /\ Except("AttributeError")
            /\ UNCHANGED <<requests, start_at, all_issues, total_count_from_api>>
       ELSE \E t \in Transport(server[cur], start_at, PageSize) :
              LET out == ClientSearch(jira_client, t)
                  step == PageStep(out.value, start_at, all_issues,
                                   total_count_from_api)
                  res == FetchResult(step.all_issues, step.total)
              IN  /\ requests' = Append(requests, Request(start_at, PageSize, t, out))
                  /\ IF out.raises
                     THEN /\ Except("search failed")
                          /\ UNCHANGED <<start_at, all_issues, total_count_from_api>>
                     ELSE /\ all_issues' = step.all_issues
                          /\ total_count_from_api' = step.total
                          /\ IF step.ctl = "continue"
                             THEN /\ start_at' = start_at + PageSize
                                  /\ UNCHANGED <<pc, jql_result, raised>>
                             ELSE /\ UNCHANGED start_at
                                  /\ IF step.ctl = "raise"
                                     THEN Except("TypeError")
                                     ELSE IF FilterRaises(step.all_issues)
                                          THEN Except("AttributeError")
                                          ELSE /\ Return(res)
                                               /\ UNCHANGED raised

(***************************************************************************)
(* IntelligentAIEngine._create_detailed_analysis.  A Python dict of counts *)
(* is a sequence of entries [k, n] in insertion order.  The month buckets  *)
(* of the created and updated dates are not part of the model.             *)
(***************************************************************************)
\* lines 1001-1005: fields.get(f, {}).get('name', default) if fields.get(f)
\* else default
FieldOr(v, default) == IF v \in {Absent, Null} THEN default ELSE v

StatusOf(item) == FieldOr(item.status, "Unknown")
TypeOf(item) == FieldOr(item.issuetype, "Unknown")
PriorityOf(item) == FieldOr(item.priority, "Unknown")
AssigneeOf(item) == FieldOr(item.assignee, "Unassigned")
ReporterOf(item) == FieldOr(item.reporter, "Unknown")

Keys(d) == {d[i].k : i \in 1..Len(d)}

\* A variant of Increment that sets the count of a key already seen to 1.
IncrementResets(d, v) ==
    IF v \in Keys(d)
    THEN [i \in 1..Len(d) |-> IF d[i].k = v THEN [k |-> v, n |-> 1] ELSE d[i]]
    ELSE Append(d, [k |-> v, n |-> 1])

\* lines 1027-1029: if v not in d: d[v] = 0; d[v] += 1
Increment(d, v) ==
    IF v \in Keys(d)
    THEN [i \in 1..Len(d) |-> IF d[i].k = v THEN [k |-> v, n |-> d[i].n + 1]
                                             ELSE d[i]]
    ELSE Append(d, [k |-> v, n |-> 1])

\* lines 1102-1105: the line of the summary that reports the counts
CountLine(actual_total, actual_retrieved) ==
    IF actual_total = actual_retrieved
    THEN "Found " \o ToString(actual_total)
             \o " total items (complete dataset analyzed):"
    ELSE "Showing segregations for " \o ToString(actual_retrieved)
             \o " issues (out of " \o ToString(actual_total) \o " total)."

\* A variant of NewAnalysis that takes the number of records for the
\* retrieved count whatever count was handed in.
NewAnalysisByLen(items, total, retrieved) ==
    [total_items |-> IF IsNone(total) THEN Len(items) ELSE Val(total),
     retrieved_items |-> Len(items),
     by_assignee |-> <<>>, by_reporter |-> <<>>, by_status |-> <<>>,
     by_type |-> <<>>, by_priority |-> <<>>, items_list |-> <<>>,
     next |-> 1]

\* lines 976-993: the counts of the call and its accumulators, made anew by
\* each call; next is the place of the loop of line 995 in the records
NewAnalysis(items, total, retrieved) ==
    [total_items |-> IF IsNone(total) THEN Len(items) ELSE Val(total),
     retrieved_items |-> IF IsNone(retrieved) THEN Len(items) ELSE Val(retrieved),
     by_assignee |-> <<>>, by_reporter |-> <<>>, by_status |-> <<>>,
     by_type |-> <<>>, by_priority |-> <<>>, items_list |-> <<>>,
     next |-> 1]

\* lines 995-1091: one turn of the loop; the record is read with get and
\* counted in each breakdown, and its key is put on the items list
CountItem(a, item) ==
    [a EXCEPT !.by_assignee = Increment(@, AssigneeOf(item)),
              !.by_reporter = Increment(@, ReporterOf(item)),
              !.by_status = Increment(@, StatusOf(item)),
              !.by_type = Increment(@, TypeOf(item)),
              !.by_priority = Increment(@, PriorityOf(item)),
              !.items_list = Append(@, IF item.key = Absent THEN "UNKNOWN"
                                             ELSE item.key),
              !.next = @ + 1]

\* lines 1110, 1116, 1122, 1128 and 1134: sorted(d.items(), key=lambda x:
\* x[1], reverse=True), the entries by count, largest first, entries of equal
\* count in the order of the dict; the dict is left as it is
RECURSIVE SortedItems(_)
SortedItems(d) ==
    IF d = <<>> THEN <<>>
    ELSE LET e == d[Len(d)]
             sorted == SortedItems(SubSeq(d, 1, Len(d) - 1))
         IN  SelectSeq(sorted, LAMBDA x : x.n >= e.n)
                 \o <<e>>
                 \o SelectSeq(sorted, LAMBDA x : x.n < e.n)

\* lines 1093-1164: the summary written from the accumulators, the count
\* line and each breakdown as its lines are written
SummaryParts(a) ==
    [empty |-> FALSE,
     count_line |-> CountLine(a.total_items, a.retrieved_items),
     by_assignee |-> SortedItems(a.by_assignee),
     by_reporter |-> SortedItems(a.by_reporter),
     by_status |-> SortedItems(a.by_status),
     by_type |-> SortedItems(a.by_type),
     by_priority |-> SortedItems(a.by_priority)]

\* The loop of lines 995-1091 run to its end on the records left.
RECURSIVE AnalyzeItems(_, _)
AnalyzeItems(a, items) ==
    IF items = <<>> THEN a
    ELSE AnalyzeItems(CountItem(a, Head(items)), Tail(items))

\* lines 971-1164; [empty |-> TRUE] is the text "No items found."
CreateDetailedAnalysis(items, total, retrieved) ==
    IF items = <<>> THEN [empty |-> TRUE]
    ELSE SummaryParts(AnalyzeItems(NewAnalysis(items, total, retrieved), items))

aggRest == <<chatVars, jira_client, server, cur, execVars, procVars>>

\* The call is entered for the first or for the second time.
InLoop == {"summarize_loop", "summarize_again_loop"}

\* A variant of Summarize whose accumulators are those the call before left,
\* so that every record is counted on top of the counts of that call.
SummarizeKeepingAccumulators ==
    /\ pc \in {"summarize", "summarized"}
    /\ IF results = <<>>
       THEN /\ data_summary' = [empty |-> TRUE]
            /\ pc' = IF pc = "summarize" THEN "summarized" ELSE "summarized_twice"
            /\ UNCHANGED analysis_dict
       ELSE /\ analysis_dict' = [analysis_dict EXCEPT
                               !.total_items =
                                   NewAnalysis(results, total_count,
                                               retrieved_count).total_items,
                               !.retrieved_items =
                                   NewAnalysis(results, total_count,
                                               retrieved_count).retrieved_items,
                               !.next = 1]
            /\ pc' = IF pc = "summarize" THEN "summarize_loop"
                     ELSE "summarize_again_loop"
            /\ UNCHANGED data_summary
    /\ UNCHANGED <<aggRest, results, total_count, retrieved_count>>

\* self._create_detailed_analysis(results, user_query, total_count,
\* retrieved_count) is called, lines 971-993: without records it returns at
\* once, otherwise it makes its accumulators and enters the loop.  The call
\* is made a second time with the same arguments once the first has returned,
\* on whatever the first call left.
Summarize ==
    /\ pc \in {"summarize", "summarized"}
    /\ IF results = <<>>
       THEN /\ data_summary' = [empty |-> TRUE]
            /\ pc' = IF pc = "summarize" THEN "summarized" ELSE "summarized_twice"
            /\ UNCHANGED analysis_dict
       ELSE /\ analysis_dict' = NewAnalysis(results, total_count, retrieved_count)
            /\ pc' = IF pc = "summarize" THEN "summarize_loop"
                     ELSE "summarize_again_loop"
            /\ UNCHANGED data_summary
    /\ UNCHANGED <<aggRest, results, total_count, retrieved_count>>

\* lines 995-1091: the loop takes the next record; it reads the record and
\* writes to the accumulators only
SummarizeItem ==
    /\ pc \in InLoop
    /\ analysis_dict.next <= Len(results)
    /\ analysis_dict' = CountItem(analysis_dict, results[analysis_dict.next])
    /\ UNCHANGED <<aggRest, pc, results, total_count, retrieved_count,
                   data_summary>>

\* lines 1093-1164: the loop is over and the call returns the summary
SummarizeReturn ==
    /\ pc \in InLoop
    /\ analysis_dict.next > Len(results)
    /\ data_summary' = SummaryParts(analysis_dict)
    /\ pc' = IF pc = "summarize_loop" THEN "summarized" ELSE "summarized_twice"
    /\ UNCHANGED <<aggRest, results, total_count, retrieved_count, analysis_dict>>

NoSummary == [empty |-> TRUE]

\* The aggregation has nothing in hand.
AggIdle ==
    /\ results = <<>>
    /\ total_count = None
    /\ retrieved_count = None
    /\ data_summary = NoSummary
    /\ analysis_dict = NewAnalysis(<<>>, None, None)

(***************************************************************************)
(* The ticket-key pattern r'\b([A-Z]{2,}-\d+)\b', searched with            *)
(* re.IGNORECASE in ASCII text.  A match starts at a letter that no word   *)
(* character precedes, takes the whole run of letters (two at least), a    *)
(* hyphen and the whole run of digits (one at least), and ends where no    *)
(* word character follows.  re.search takes the leftmost match and         *)
(* group(1) is the matched text as it was typed.                           *)
(***************************************************************************)
Letters ==
    {"a", "b", "c", "d", "e", "f", "g", "h", "i", "j", "k", "l", "m", "n", "o",
     "p", "q", "r", "s", "t", "u", "v", "w", "x", "y", "z", "A", "B", "C", "D",
     "E", "F", "G", "H", "I", "J", "K", "L", "M", "N", "O", "P", "Q", "R", "S",
     "T", "U", "V", "W", "X", "Y", "Z"}

Digits == {"0", "1", "2", "3", "4", "5", "6", "7", "8", "9"}

Char(s, i) == SubSeq(s, i, i)
IsLetter(c) == c \in Letters
IsDigit(c) == c \in Digits
\* \w of a str pattern: the characters that are alphanumeric, and "_"
IsWordChar(c) ==
    \/ IsLetter(c) \/ IsDigit(c) \/ c = "_"
    \/ c \in {"ª", "²", "³", "µ", "¹", "º", "¼", "½", "¾", "À", "Á", "Â",
              "Ã", "Ä", "Å", "Æ", "Ç", "È", "É", "Ê", "Ë", "Ì", "Í", "Î",
              "Ï", "Ð", "Ñ", "Ò", "Ó", "Ô", "Õ", "Ö", "Ø", "Ù", "Ú", "Û",
              "Ü", "Ý", "Þ", "ß", "à", "á", "â", "ã", "ä", "å", "æ", "ç",
              "è", "é", "ê", "ë", "ì", "í", "î", "ï", "ð", "ñ", "ò", "ó",
              "ô", "õ", "ö", "ø", "ù", "ú", "û", "ü", "ý", "þ", "ÿ"}

RECURSIVE LetterRun(_, _)
LetterRun(s, i) ==
    IF i <= Len(s) /\ IsLetter(Char(s, i)) THEN 1 + LetterRun(s, i + 1) ELSE 0

RECURSIVE DigitRun(_, _)
DigitRun(s, i) ==
    IF i <= Len(s) /\ IsDigit(Char(s, i)) THEN 1 + DigitRun(s, i + 1) ELSE 0

\* The position after the match that starts at i; 0 when none starts there.
MatchEnd(s, i) ==
    LET hyphen == i + LetterRun(s, i)
        end == hyphen + 1 + DigitRun(s, hyphen + 1)
    IN  IF /\ (i = 1 \/ ~IsWordChar(Char(s, i - 1)))
           /\ LetterRun(s, i) >= 2
           /\ hyphen <= Len(s)
           /\ Char(s, hyphen) = "-"
           /\ DigitRun(s, hyphen + 1) >= 1
           /\ (end > Len(s) \/ ~IsWordChar(Char(s, end)))
        THEN end ELSE 0

\* issue_key_match.group(1) if issue_key_match else None
IssueKeyMatch(s) ==
    LET starts == {i \in 1..Len(s) : MatchEnd(s, i) > 0}
    IN  IF starts = {} THEN Null
        ELSE LET i == CHOOSE x \in starts : \A y \in starts : x <= y
             IN  SubSeq(s, i, MatchEnd(s, i) - 1)

(***************************************************************************)
(* The structured query _analyze_query hands to process_query: the parsed  *)
(* answer of the language model, or the value built without it.  A Python  *)
(* dict of strings is a sequence of entries [k, v].  jql holds the query   *)
(* when 'jql' is a string and jql_list the queries when it is a list.      *)
(***************************************************************************)
Analysis(intent, q, ents) ==
    [has_jql |-> TRUE, is_list |-> FALSE, jql |-> q, jql_list |-> <<>>,
     intent |-> intent, entities_kind |-> "dict", entities |-> ents]

NoAnalysis ==
    [has_jql |-> FALSE, is_list |-> FALSE, jql |-> "", jql_list |-> <<>>,
     intent |-> Absent, entities_kind |-> "absent", entities |-> <<>>]

RECURSIVE JoinWith(_, _)
JoinWith(sep, xs) ==
    IF xs = <<>> THEN ""
    ELSE IF Len(xs) = 1 THEN xs[1]
         ELSE xs[1] \o sep \o JoinWith(sep, Tail(xs))

Quoted(s) == "\"" \o s \o "\""

AnyIn(words, s) == \E w \in words : Contains(w, s)

\* Python truthiness of an optional str
Truthy(x) == x \notin {Null, ""}

\* lines 419-444: the except branch of _analyze_query
AnalyzeFallback(query, project_keys) ==
    LET specific_issue_key == IssueKeyMatch(query)
    IN  IF Truthy(specific_issue_key)
        THEN Analysis("issue_details", "issue = " \o Quoted(specific_issue_key),
                      <<[k |-> "issue_key", v |-> specific_issue_key]>>)
        ELSE Analysis("general_query",
                      "project in (" \o JoinWith(", ", project_keys)
                          \o ") ORDER BY updated DESC", <<>>)

\* lines 819-823: the key of the first project whose lower-cased key occurs in
\* the lower-cased utterance
RECURSIVE MentionedProject(_, _)
MentionedProject(query_lower, keys) ==
    IF keys = <<>> THEN Null
    ELSE IF Contains(Lower(Head(keys)), query_lower) THEN Head(keys)
         ELSE MentionedProject(query_lower, Tail(keys))

\* lines 826-832
IssueTypeOf(query_lower) ==
    IF AnyIn({"story", "stories", "user story"}, query_lower) THEN "Story"
    ELSE IF AnyIn({"bug", "bugs", "defect", "defects"}, query_lower) THEN "Bug"
    ELSE IF AnyIn({"task", "tasks"}, query_lower) THEN "Task"
    ELSE Null

\* lines 835-839
AssigneeAlias(query_lower) ==
    IF Contains("ashwin", query_lower) THEN "Ashwin Thyagarajan"
    ELSE IF Contains("ashwini", query_lower) THEN "Ashwini Kumar"
    ELSE Null

\* lines 860-863
StatusClause(query_lower) ==
    IF AnyIn({"open", "to do", "in progress"}, query_lower)
    THEN <<"status != \"Done\"">>
    ELSE IF Contains("done", query_lower) \/ Contains("completed", query_lower)
         THEN <<"status = \"Done\"">>
         ELSE <<>>

\* ", ".join([f'"{k}"' for k in project_keys])
ProjectList(project_keys) ==
    JoinWith(", ", [i \in 1..Len(project_keys) |-> Quoted(project_keys[i])])

\* lines 810-873 of _fallback_processing: the query built from the utterance
FallbackJql(query, project_keys) ==
    LET query_lower == Lower(query)
        specific_issue_key == IssueKeyMatch(query)
        mentioned_project == MentionedProject(query_lower, project_keys)
        issue_type == IssueTypeOf(query_lower)
        assignee == AssigneeAlias(query_lower)
        jql_parts ==
            (IF Truthy(specific_issue_key)
             THEN <<"issue = " \o Quoted(specific_issue_key)>>
             ELSE IF Truthy(mentioned_project)
                  THEN <<"project = " \o Quoted(mentioned_project)>>
                  ELSE IF project_keys # <<>>
                       THEN <<"project in (" \o ProjectList(project_keys) \o ")">>
                       ELSE <<>>)
            \o (IF Truthy(issue_type)
                THEN <<"issuetype = " \o Quoted(issue_type)>> ELSE <<>>)
            \o (IF Truthy(assignee)
                THEN <<"assignee = " \o Quoted(assignee)>> ELSE <<>>)
            \o StatusClause(query_lower)
        q == IF jql_parts # <<>> THEN JoinWith(" AND ", jql_parts)
             ELSE "project in (" \o ProjectList(project_keys) \o ")"
    IN  IF Truthy(specific_issue_key) THEN q ELSE q \o " ORDER BY updated DESC"

\* The two deterministic builders applied to one utterance and one project list.
BuildFallbackQueries ==
    /\ pc = "build"
    /\ query_analysis' = AnalyzeFallback(user_query, projects)
    /\ jql' = FallbackJql(user_query, projects)
    /\ pc' = "built"
    /\ UNCHANGED <<chatVars, jira_client, server, cur, query_intent, start_at, all_issues,
                   total_count_from_api, requests, jql_result, raised, aggVars,
                   client, confluence_client, conversation_context, user_query,
                   projects, frame, all_results, doc_searches,
                   confluence_results, result>>

(***************************************************************************)
(* The values process_query returns.  jql holds the 'jql' entry when it is *)
(* a string and jql_list when it is a list; source and comparison_data are *)
(* Absent when the dict has no such key.                                   *)
(***************************************************************************)
Answer(q, response, data, intent, success, source) ==
    [jql |-> q, jql_list |-> <<>>, response |-> response, data |-> data,
     intent |-> intent, success |-> success, source |-> source,
     has_comparison_data |-> FALSE]

\* process_query has returned nothing yet.
NoAnswer == Answer("", [kind |-> "none"], <<>>, Absent, FALSE, Absent)

\* No request is being served.
ProcIdle ==
    /\ client = "None"
    /\ confluence_client = "None"
    /\ conversation_context = <<>>
    /\ user_query = ""
    /\ projects = <<>>
    /\ query_analysis = NoAnalysis
    /\ frame = ""
    /\ all_results = <<>>
    /\ doc_searches = <<>>
    /\ confluence_results = <<>>
    /\ result = NoAnswer

\* The sessions whose clients call the chat endpoint.  A ChatRequest carries
\* no session identifier (main.py lines 159-163): the session is known to
\* the client only.
Sessions == {"A", "B"}

\* chat_endpoint is not serving the session.
NoRequest ==
    [pc |-> "idle", request |-> 0, message |-> "", frame |-> "", route |-> "",
     analysis |-> "", recent_context |-> <<>>, read_at |-> 0, previous |-> 0,
     reply |-> "", served |-> 0]

\* The application has served no chat request.
\* main.py lines 47-65: the application state at start.  A tracker client is
\* known by its number, 0 standing for None; ai_engine holds the number of
\* the client its engine was constructed with; http tells of each client
\* made whether its HTTP client is open; chats keeps, for each chat request,
\* the client stored when it was received and the client its queries ran on.
NoApp ==
    [jira_client |-> 0, confluence_client |-> FALSE, ai_engine |-> None,
     http |-> <<>>, chats |-> <<>>]

\* No handler is in flight.
NoHandlers == <<>>

ChatIdle ==
    /\ ai_engine = "None"
    /\ chat = [s \in Sessions |-> NoRequest]
    /\ history = <<>>
    /\ completed = <<>>
    /\ app_state = NoApp
    /\ handlers = NoHandlers

(***************************************************************************)
(* SpecExecute: _execute_jql called once, on any of the sample queries,    *)
(* against any of the servers.                                             *)
(***************************************************************************)
SampleJql ==
    { "project in (\"CCM\", \"TI\") ORDER BY updated DESC",
      "issue = \"CCM-283\"",
      "project = \"ACCOUNTS\" ORDER BY updated DESC",
      "assignee = \"Count Dracula\"",
      "project = \"CCM\" GROUP BY status" }

SampleIntents ==
    {"count_items", "story_count", "issue_count", "list_items",
     "enhanced_fallback", Absent}

\* The totals for which a misbehaving server is explored.
FlakyTotals == {0, 1, PageSize, PageSize + 1, 2 * PageSize + 37}

Servers ==
    {[T |-> n, flaky |-> FALSE] : n \in 0..MaxTotal}
    \cup {[T |-> n, flaky |-> TRUE] : n \in FlakyTotals}

NoResult == JqlResult(<<>>, None, 0, FALSE, Absent)

InitExecute ==
    /\ jira_client \in {"None", "JiraClient", "Stub"}
    /\ server \in {<<s>> : s \in Servers}
    /\ cur = 1
    /\ pc = "execute"
    /\ jql \in SampleJql
    /\ query_intent \in SampleIntents
    /\ start_at = 0
    /\ all_issues = <<>>
    /\ total_count_from_api = None
    /\ requests = <<>>
    /\ jql_result = NoResult
    /\ raised = Absent
    /\ AggIdle
    /\ ProcIdle
    /\ ChatIdle

NextExecute == ExecuteCountOnly \/ ExecuteFetchPage

SpecExecute == InitExecute /\ [][NextExecute]_vars

(***************************************************************************)
(* SpecSummarize: _create_detailed_analysis called twice on any sequence   *)
(* of at most MaxRecords of the sample records, with any pair of counts.   *)
(* The method has no await: the steps of a call follow one another with    *)
(* nothing in between.                                                     *)
(***************************************************************************)
SampleIssues ==
    { IssueAt(1), IssueAt(2), IssueAt(3), IssueAt(4),
      Issue(Absent, "orphan", Absent, Null, "Low", "Alice", "Dave"),
      Issue("K-9", "", "Open", "Task", "Unknown", "Unassigned", Absent) }

SeqsUpTo(S, n) == UNION {[1..k -> S] : k \in 0..n}

NoQuery == ""

\* _execute_jql is not running.
ExecIdle ==
    /\ jql = NoQuery
    /\ query_intent = Absent
    /\ start_at = 0
    /\ all_issues = <<>>
    /\ total_count_from_api = None
    /\ requests = <<>>
    /\ jql_result = NoResult
    /\ raised = Absent

InitSummarize ==
    /\ jira_client = "JiraClient"
    /\ server = <<>>
    /\ cur = 0
    /\ pc = "summarize"
    /\ ExecIdle
    /\ results \in SeqsUpTo(SampleIssues, MaxRecords)
    /\ total_count \in {None} \cup {Some(n) : n \in 0..MaxDeclared}
    /\ retrieved_count \in {None} \cup {Some(n) : n \in 0..MaxRecords}
    /\ data_summary = NoSummary
    /\ analysis_dict = NewAnalysis(<<>>, None, None)
    /\ ProcIdle
    /\ ChatIdle

NextSummarize == Summarize \/ SummarizeItem \/ SummarizeReturn

SpecSummarize == InitSummarize /\ [][NextSummarize]_vars

(***************************************************************************)
(* SpecBuild: the two deterministic query builders applied to any          *)
(* utterance of at most MaxWords of the sample words and any of the        *)
(* sample project lists.                                                   *)
(***************************************************************************)
BuildWords ==
    {"tickets", "CCM-283", "ab-1", "bugs", "open", "ashwini", "x9ab-12",
     "Ti-07?"}

ProjectLists == {<<>>, <<"CCM", "TI">>, <<"TI", "CCM">>, <<"", "CCM">>}

Utterances(words, n) == {JoinWith(" ", ws) : ws \in SeqsUpTo(words, n)}

InitBuild ==
    /\ jira_client = "JiraClient"
    /\ server = <<>>
    /\ cur = 0
    /\ pc = "build"
    /\ ExecIdle
    /\ AggIdle
    /\ client = "None"
    /\ confluence_client = "None"
    /\ conversation_context = <<>>
    /\ user_query \in Utterances(BuildWords, MaxWords)
    /\ projects \in ProjectLists
    /\ query_analysis = NoAnalysis
    /\ frame = ""
    /\ all_results = <<>>
    /\ doc_searches = <<>>
    /\ confluence_results = <<>>
    /\ result = NoAnswer
    /\ ChatIdle

NextBuild == BuildFallbackQueries

SpecBuild == InitBuild /\ [][NextBuild]_vars

(***************************************************************************)
(* IntelligentAIEngine.add_context.                                        *)
(***************************************************************************)
ContextCap == 10

Turn(q, executed, n, response) ==
    [user_query |-> q, jql |-> executed, result_count |-> n, response |-> response]

\* A context that, once full, keeps its oldest turns and drops the new one.
AddContextKeepOldest(context, turn) ==
    IF Len(context) >= ContextCap THEN context ELSE Append(context, turn)

\* lines 47-60
AddContext(context, turn) ==
    LET appended == Append(context, turn)
    IN  IF Len(appended) > ContextCap THEN Tail(appended) ELSE appended

(***************************************************************************)
(* The routing rules of process_query, lines 76-117.                       *)
(***************************************************************************)
ConfluenceKeywords ==
    {"confluence", "documentation", "wiki", "page", "article", "knowledge base",
     "doc", "guide", "manual", "tutorial"}

JiraKeywords ==
    {"issue", "bug", "task", "story", "epic", "sprint", "ticket", "jira",
     "assignee", "reporter", "status", "priority"}

ConfluencePriorityKeywords ==
    {"confluence", "wiki", "document", "insurance", "eligibility",
     "entertainment", "partners", "lab", "results", "emr", "careexpand"}

ConfluenceCheckPhrases ==
    {"check in confluence", "check confluence", "look in confluence",
     "search confluence", "check wiki", "look in wiki", "search wiki",
     "check documentation", "look in documentation", "search documentation",
     "check docs", "look in docs", "search docs"}

DocumentTerms ==
    {"results", "report", "analysis", "findings", "study", "research", "data",
     "information", "content"}

ConfluencePatterns ==
    {"view lab results", "lab results", "test results", "analysis results",
     "project overview", "documentation", "how to", "getting started",
     "user guide", "api documentation", "technical specs"}

HasConfluencePriority(query) == AnyIn(ConfluencePriorityKeywords, Lower(query))

\* A variant of ShouldSearchConfluenceFirst whose last rule does not look for
\* '=' and '-'.
ShouldSearchIgnoringPunctuation(query) ==
    LET query_lower == Lower(query)
        is_jira_query == AnyIn(JiraKeywords, query_lower)
    IN  \/ HasConfluencePriority(query)
        \/ AnyIn(ConfluenceCheckPhrases, query_lower)
        \/ AnyIn(ConfluenceKeywords, query_lower)
        \/ (AnyIn(ConfluencePatterns, query_lower) /\ ~is_jira_query)
        \/ (AnyIn(DocumentTerms, query_lower) /\ ~is_jira_query)

\* lines 111-117
ShouldSearchConfluenceFirst(query) ==
    LET query_lower == Lower(query)
        is_confluence_query == AnyIn(ConfluenceKeywords, query_lower)
        is_jira_query == AnyIn(JiraKeywords, query_lower)
        has_confluence_check == AnyIn(ConfluenceCheckPhrases, query_lower)
        has_document_terms == AnyIn(DocumentTerms, query_lower)
        has_confluence_pattern == AnyIn(ConfluencePatterns, query_lower)
    IN  \/ HasConfluencePriority(query)
        \/ has_confluence_check
        \/ is_confluence_query
        \/ (has_confluence_pattern /\ ~is_jira_query)
        \/ /\ has_document_terms
           /\ ~is_jira_query
           /\ ~Contains("=", query_lower)
           /\ ~Contains("-", query_lower)

(***************************************************************************)
(* The text-generation service.  A call of chat.completions.create either  *)
(* raises or yields a message whose content is stripped by the caller.     *)
(***************************************************************************)
\* str.isspace() of one character: the space, \t, \n, \r, \f, and the
\* characters U+000B, U+001C to U+001F, U+0085 and U+00A0
IsSpace(c) ==
    c \in {" ", "\t", "\n", "\r", "\f",
           "", "", "", "", "", "", " "}

RECURSIVE LStrip(_)
LStrip(s) ==
    IF s # "" /\ IsSpace(Char(s, 1)) THEN LStrip(SubSeq(s, 2, Len(s))) ELSE s

RECURSIVE RStrip(_)
RStrip(s) ==
    IF s # "" /\ IsSpace(Char(s, Len(s))) THEN RStrip(SubSeq(s, 1, Len(s) - 1))
    ELSE s

Strip(s) == RStrip(LStrip(s))

LlmOutcomes ==
    {[raises |-> TRUE, content |-> ""],
     [raises |-> FALSE, content |-> ""],
     [raises |-> FALSE, content |-> " \n"],
     [raises |-> FALSE, content |-> "Strategic analysis\n"]}

\* lines 748-789; "TypeError" when the intent test of line 779 raises
DetermineResponseType(query, ai_response, intent) ==
    LET query_lower == Lower(query)
        response_lower == Lower(ai_response)
        actions == {"recommend", "suggest", "should", "next step", "action"}
    IN  IF AnyIn({"who", "reporter", "assignee", "person"}, query_lower)
        THEN "insight"
        ELSE IF AnyIn({"priority", "status", "when", "date", "time"}, query_lower)
        THEN "insight"
        ELSE IF AnyIn(actions, query_lower) THEN "recommendation"
        ELSE IF AnyIn({"summary", "overview", "total", "count", "how many"},
                      query_lower)
        THEN "summary"
        ELSE IF AnyIn(actions, response_lower) THEN "recommendation"
        ELSE IF AnyIn({"insight", "pattern", "trend", "analysis", "indicates"},
                      response_lower)
        THEN "insight"
        ELSE IF AnyIn({"summary", "total", "overview", "count"}, response_lower)
        THEN "summary"
        ELSE IF intent = Null THEN "TypeError"    \* 'comparison' in None
        ELSE IF Contains("comparison", intent) \/ Contains("compare", query_lower)
        THEN "analysis"
        ELSE IF Contains("single_issue", intent) THEN "analysis"
        ELSE IF Len(response_lower) < 100 THEN "insight"
        ELSE "analysis"

\* lines 791-800; a tracker record has no 'count' key
BasicResponse(rs) ==
    [kind |-> "basic",
     content |-> IF rs = <<>> THEN "No matching items found."
                 ELSE "Found " \o ToString(Len(rs))
                          \o " items matching your criteria."]

\* lines 597-606: the data summary put into the prompt
DataSummary(rs, total, retrieved) ==
    IF rs = <<>> THEN [empty |-> TRUE, text |-> "No matching items found."]
    ELSE CreateDetailedAnalysis(rs, total, retrieved)

\* lines 577-746: the value _generate_response returns, the service having
\* answered out.  query_analysis.get('intent', '') is '' for a missing key.
GenerateResponse(query, analysis, rs, out) ==
    LET ai_response == Strip(out.content)
        response_type ==
            DetermineResponseType(query, ai_response,
                IF analysis.intent = Absent THEN "" ELSE analysis.intent)
    IN  IF client = "None" \/ out.raises \/ response_type = "TypeError"
        THEN BasicResponse(rs)
        ELSE [kind |-> "llm_dict", content |-> ai_response,
              type |-> response_type]

(***************************************************************************)
(* The comparison answer.  An entry of all_results is the dict of lines    *)
(* 224-230; count is an optional int, as total_count is.                   *)
(***************************************************************************)
Entry(entity, q, rs, count, retrieved, err) ==
    [entity |-> entity, jql |-> q, results |-> rs, count |-> count,
     retrieved_count |-> retrieved, error |-> err]

\* d.get(key, default) on a dict of strings
Lookup(d, key, default) ==
    IF \E i \in 1..Len(d) : d[i].k = key
    THEN d[CHOOSE i \in 1..Len(d) : d[i].k = key].v
    ELSE default

\* line 225: query_analysis.get("entities", {}).get(f"entity{i+1}",
\* f"Entity {i+1}"), i + 1 being n
EntityName(analysis, n) ==
    Lookup(analysis.entities, "entity" \o ToString(n), "Entity " \o ToString(n))

\* A variant of SortByCount that orders the entries by the number of records
\* fetched.
RECURSIVE SortByRetrieved(_)
SortByRetrieved(entries) ==
    IF entries = <<>> THEN <<>>
    ELSE LET e == entries[Len(entries)]
             sorted == SortByRetrieved(SubSeq(entries, 1, Len(entries) - 1))
         IN  SelectSeq(sorted, LAMBDA x : x.retrieved_count >= e.retrieved_count)
                 \o <<[e EXCEPT !.count = Some(e.retrieved_count)]>>
                 \o SelectSeq(sorted, LAMBDA x : x.retrieved_count < e.retrieved_count)

\* line 1269: entities_data.sort(key=lambda x: x[1], reverse=True), a stable
\* sort; every count is an int
RECURSIVE SortByCount(_)
SortByCount(entries) ==
    IF entries = <<>> THEN <<>>
    ELSE LET e == entries[Len(entries)]
             sorted == SortByCount(SubSeq(entries, 1, Len(entries) - 1))
         IN  SelectSeq(sorted, LAMBDA x : Val(x.count) >= Val(e.count))
                 \o <<e>>
                 \o SelectSeq(sorted, LAMBDA x : Val(x.count) < Val(e.count))

RECURSIVE SumOfCounts(_)
SumOfCounts(entries) ==
    IF entries = <<>> THEN 0
    ELSE Val(Head(entries).count) + SumOfCounts(Tail(entries))

\* lines 1256-1304.  ranking holds the (entity, count) pairs of the results
\* summary in the order printed; the workload percentages are not modelled.
\* A count of None makes the sort or the sum raise TypeError, and the except
\* branch answers with the sentence of line 1304.
FallbackComparisonResponse(entries) ==
    IF \E i \in 1..Len(entries) : IsNone(entries[i].count)
    THEN [kind |-> "comparison_completed",
          content |-> "Comparison completed. Found data for "
                          \o ToString(Len(entries)) \o " entities."]
    ELSE LET sorted == SortByCount(entries)
             ranking == [i \in 1..Len(sorted) |->
                            [entity |-> sorted[i].entity,
                             count |-> Val(sorted[i].count)]]
         IN  [kind |-> "fallback_comparison",
              ranking |-> ranking,
              verdict |-> IF Len(ranking) < 2 THEN "none"
                          ELSE IF ranking[1].count > ranking[2].count
                               THEN "winner"
                               ELSE IF ranking[1].count = ranking[2].count
                                    THEN "tied" ELSE "none",
              difference |-> IF Len(ranking) >= 2
                             THEN ranking[1].count - ranking[2].count ELSE 0,
              total_items |-> SumOfCounts(entries)]

\* lines 1166-1254: the value _generate_comparison_response returns
GenerateComparisonResponse(entries, out) ==
    IF out.raises THEN FallbackComparisonResponse(entries)
    ELSE [kind |-> "llm", content |-> Strip(out.content)]

RECURSIVE FlatResults(_)
FlatResults(entries) ==
    IF entries = <<>> THEN <<>>
    ELSE Head(entries).results \o FlatResults(Tail(entries))

(***************************************************************************)
(* IntelligentAIEngine._enhanced_fallback_response.                        *)
(***************************************************************************)
\* X.get('name') on a field whose JSON value is null raises AttributeError:
\* the issue type of every item is read (lines 910-912), the status, the
\* assignee and the priority of a single item (lines 934-942), the status and
\* the assignee of the first three of several (lines 957-958).
EnhancedFallbackRaises(rs) ==
    \/ \E i \in 1..Len(rs) : rs[i].issuetype = Null
    \/ /\ Len(rs) = 1
       /\ Null \in {rs[1].status, rs[1].assignee, rs[1].priority}
    \/ /\ Len(rs) > 1
       /\ \E i \in 1..Min(3, Len(rs)) : Null \in {rs[i].status, rs[i].assignee}

\* lines 917-926: the introduction
FallbackIntro(specific_issue_key, assignee, project, issue_type) ==
    IF Truthy(specific_issue_key)
    THEN "Here are the details for " \o specific_issue_key \o ":"
    ELSE IF Truthy(assignee) THEN "Here's what I found for " \o assignee \o ":"
    ELSE IF Truthy(project)
    THEN "Here's what I found in the " \o project \o " project:"
    ELSE IF Truthy(issue_type)
    THEN "Here are the " \o Lower(issue_type) \o "s I found:"
    ELSE "Here's what I found:"

\* lines 904-969, for results on which it does not raise
EnhancedFallbackResponse(query, project_keys, rs) ==
    IF rs = <<>>
    THEN [kind |-> "enhanced_fallback",
          content |-> "I couldn't find any matching items. Try being more "
              \o "specific about the project, assignee, or issue type."]
    ELSE [kind |-> "enhanced_fallback",
          content |-> FallbackIntro(IssueKeyMatch(query),
                          AssigneeAlias(Lower(query)),
                          MentionedProject(Lower(query), project_keys),
                          IssueTypeOf(Lower(query))),
          total |-> Len(rs)]

(***************************************************************************)
(* IntelligentAIEngine._extract_confluence_search_terms, on ASCII text.    *)
(***************************************************************************)
StopWords ==
    {"the", "a", "an", "and", "or", "but", "in", "on", "at", "to", "for", "of",
     "with", "by", "is", "are", "was", "were"}

PolitePhrases ==
    {"i need", "i want", "show me", "find me", "get me", "give me", "can you",
     "please"}

\* Whether r'\b(phrase)\b' matches s at i.
PhraseAt(s, i, phrase) ==
    LET end == i + Len(phrase)
    IN  /\ end - 1 <= Len(s)
        /\ SubSeq(s, i, end - 1) = phrase
        /\ (i = 1 \/ ~IsWordChar(Char(s, i - 1)))
        /\ (end > Len(s) \/ ~IsWordChar(Char(s, end)))

\* line 1389: re.sub(r'\b(i need|...|please)\b', '', s), from position i on:
\* the text before the leftmost match is kept, the match is dropped, and the
\* scan goes on after it.
RECURSIVE RemovePhrases(_, _)
RemovePhrases(s, i) ==
    LET starts == {j \in i..Len(s) : \E p \in PolitePhrases : PhraseAt(s, j, p)}
    IN  IF starts = {} THEN SubSeq(s, i, Len(s))
        ELSE LET j == CHOOSE x \in starts : \A y \in starts : x <= y
                 phrase == CHOOSE p \in PolitePhrases : PhraseAt(s, j, p)
             IN  SubSeq(s, i, j - 1) \o RemovePhrases(s, j + Len(phrase))

\* str.split(): the words of s in order, a word being a longest run of
\* characters that are not white space
Split(s) ==
    LET IsStart(j) == ~IsSpace(Char(s, j)) /\ (j = 1 \/ IsSpace(Char(s, j - 1)))
        starts == {j \in 1..Len(s) : IsStart(j)}
        EndOf(j) == CHOOSE e \in j..Len(s) :
                        /\ \A x \in j..e : ~IsSpace(Char(s, x))
                        /\ (e = Len(s) \/ IsSpace(Char(s, e + 1)))
        Nth(n) == CHOOSE j \in starts : Cardinality({x \in starts : x < j}) = n - 1
    IN  [n \in 1..Cardinality(starts) |-> SubSeq(s, Nth(n), EndOf(Nth(n)))]

\* line 1397: re.sub(r'[^\w]', '', word)
RECURSIVE CleanWord(_)
CleanWord(word) ==
    IF Len(word) <= 1 THEN (IF IsWordChar(word) THEN word ELSE "")
    ELSE LET half == Len(word) \div 2
         IN  CleanWord(SubSeq(word, 1, half))
                 \o CleanWord(SubSeq(word, half + 1, Len(word)))

\* lines 1378-1406
ExtractConfluenceSearchTerms(query) ==
    LET words == Split(RemovePhrases(Lower(query), 1))
        cleaned == [i \in 1..Len(words) |-> CleanWord(words[i])]
        search_terms ==
            SelectSeq(cleaned,
                      LAMBDA w : w # "" /\ w \notin StopWords /\ Len(w) > 1)
    IN  IF search_terms = <<>> THEN query
        ELSE JoinWith(" ", SubSeq(search_terms, 1, Min(5, Len(search_terms))))

(***************************************************************************)
(* IntelligentAIEngine._process_confluence_query.  A call of               *)
(* confluence_client.search raises or returns hits; a hit is the content   *)
(* id of the page found.                                                   *)
(***************************************************************************)
SearchOutcomes ==
    {[raises |-> TRUE, hits |-> <<>>],
     [raises |-> FALSE, hits |-> <<>>],
     [raises |-> FALSE, hits |-> <<"P1">>],
     [raises |-> FALSE, hits |-> <<"P1", "P2">>]}

DocSearch(terms, limit, out) ==
    [terms |-> terms, limit |-> limit, raises |-> out.raises,
     hits |-> Len(out.hits)]

\* line 1338: the first hit of each content id is kept
RECURSIVE Dedupe(_)
Dedupe(hits) ==
    IF hits = <<>> THEN <<>>
    ELSE LET front == SubSeq(hits, 1, Len(hits) - 1)
             last == hits[Len(hits)]
         IN  IF \E i \in 1..Len(front) : front[i] = last
             THEN Dedupe(front) ELSE Append(Dedupe(front), last)

\* The positions of _process_confluence_query: "confluence" before the
\* search of strategy 1, KeywordPc(i) before the search of keyword i of
\* strategy 2, "confluence_broader" before the search of strategy 3 and
\* "confluence_respond" after the last search.
KeywordPc(i) == "confluence_keyword" \o ToString(i)

ConfluencePcs ==
    {"confluence", KeywordPc(1), KeywordPc(2), "confluence_broader",
     "confluence_respond"}

\* line 1342: where the call goes on after strategies 1 and 2
AfterStrategy2(hits) ==
    IF hits = <<>> THEN "confluence_broader" ELSE "confluence_respond"

\* lines 1408-1507: the answer text for hits
GenerateConfluenceResponse(hits, out) ==
    IF client = "None" \/ out.raises
    THEN [kind |-> "basic_confluence", pages |-> Len(hits)]
    ELSE [kind |-> "llm", content |-> Strip(out.content)]

\* The exception e leaves process_query: no answer is returned.
Escapes(e) == NoAnswer

(***************************************************************************)
(* The failure answers of process_query and _fallback_processing.          *)
(***************************************************************************)
\* lines 194-201
FallbackErrorAnswer(e) ==
    Answer("fallback_error", [kind |-> "fallback_error", error |-> e], <<>>,
           "fallback_error", FALSE, "fallback_error")

\* lines 896-902
ErrorAnswer(e) ==
    Answer("", [kind |-> "error", error |-> e], <<>>, "error", FALSE, Absent)

\* The dict of lines 896-902 read as a structured query (line 296).
ErrorAnalysis ==
    [has_jql |-> TRUE, is_list |-> FALSE, jql |-> "", jql_list |-> <<>>,
     intent |-> "error", entities_kind |-> "absent", entities |-> <<>>]

(***************************************************************************)
(* The language-understanding call of _analyze_query, lines 401-417: it    *)
(* raises, or answers text that json.loads rejects, or answers JSON.       *)
(***************************************************************************)
Comparison(intent, qs, ents) ==
    [has_jql |-> TRUE, is_list |-> TRUE, jql |-> "", jql_list |-> qs,
     intent |-> intent, entities_kind |-> "dict", entities |-> ents]

Entities(first, second) ==
    <<[k |-> "entity1", v |-> first], [k |-> "entity2", v |-> second]>>

CcmList == Analysis("list_items", "project = \"CCM\" ORDER BY updated DESC", <<>>)
CcmVsTi ==
    Comparison("project_comparison", <<"project = \"CCM\"", "project = \"TI\"">>,
               Entities("CCM", "TI"))

\* The parsed answers explored.
SampleAnswers ==
    { CcmList,
      Analysis("count_items", "project = \"CCM\"", <<>>),
      [CcmList EXCEPT !.intent = Absent],                 \* no 'intent' key
      [NoAnalysis EXCEPT !.intent = "list_items"],        \* no 'jql' key
      CcmVsTi,
      Comparison("project_comparison",
                 <<"project = \"ACCOUNTS\"", "project = \"CCM\"">>,
                 Entities("ACCOUNTS", "CCM")),
      [CcmVsTi EXCEPT !.entities_kind = "absent", !.entities = <<>>],
      [CcmVsTi EXCEPT !.entities_kind = "null", !.entities = <<>>],
      Comparison("assignee_comparison", <<"assignee = \"Ashwin Thyagarajan\"">>,
                 <<[k |-> "entity1", v |-> "Ashwin Thyagarajan"]>>),
      Comparison("project_comparison", <<>>, <<>>) }

NluOutcomes ==
    {[kind |-> "raises", answer |-> NoAnalysis],
     [kind |-> "unparseable", answer |-> NoAnalysis]}
    \cup {[kind |-> "json", answer |-> a] : a \in SampleAnswers}

\* What get_projects yields: JiraClient.get_projects returns [] on a failure
\* (jira_client.py lines 114-116), a substitute client may raise.
SampleProjects == {<<>>, <<"CCM", "TI">>}

GetProjects(gateway) ==
    {[raises |-> FALSE, keys |-> ks] : ks \in SampleProjects}
    \cup (IF gateway = "Stub" THEN {[raises |-> TRUE, keys |-> <<>>]} ELSE {})

(***************************************************************************)
(* The tracker as process_query sees it: the dataset that answers a query  *)
(* is chosen when the query is issued.                                     *)
(***************************************************************************)
ProcServers ==
    {[T |-> 7, flaky |-> FALSE], [T |-> 12, flaky |-> FALSE],
     [T |-> 1, flaky |-> TRUE]}

NoServer == [T |-> 0, flaky |-> FALSE]

\* await self._execute_jql(q, intent), awaited by caller
Call(q, intent, caller) ==
    /\ \E s \in (IF jira_client = "None" THEN {NoServer} ELSE ProcServers) :
          server' = Append(server, s)
    /\ cur' = cur + 1
    /\ jql' = q
    /\ query_intent' = intent
    /\ start_at' = 0
    /\ all_issues' = <<>>
    /\ total_count_from_api' = None
    /\ jql_result' = NoResult
    /\ raised' = Absent
    /\ frame' = caller
    /\ pc' = "execute"
    /\ UNCHANGED requests

\* process_query returns answer.
Finish(answer) ==
    /\ result' = answer
    /\ pc' = "done"

engineVars == <<jira_client, client, confluence_client, user_query>>
callVars == <<server, cur, execVars>>

\* The routing rules alone, whether or not a document client is configured.
SearchDocumentsUnconfigured(query) == ShouldSearchConfluenceFirst(query)

\* line 130: the documents are searched first when the rules say so and a
\* document client is configured
SearchDocuments(query) ==
    ShouldSearchConfluenceFirst(query) /\ confluence_client # "None"

\* lines 72-137 and 203: the entry of process_query
ProcessQuery ==
    /\ pc = "start"
    /\ IF client = "None"
       THEN pc' = "fallback" /\ UNCHANGED frame
       ELSE IF SearchDocuments(user_query)
            THEN pc' = "confluence" /\ UNCHANGED frame
            ELSE pc' = "analyze" /\ frame' = "main"
    /\ UNCHANGED <<chatVars, engineVars, callVars, aggVars, conversation_context,
                   projects, query_analysis, all_results, doc_searches,
                   confluence_results, result>>

\* await self.confluence_client.search(terms, limit=limit), answered by out
ConfluenceSearch(terms, limit, out) ==
    doc_searches' = Append(doc_searches, DocSearch(terms, limit, out))

\* lines 1312-1329: the search of strategy 1.  An exception of a search ends
\* the call in the except branch of lines 1365-1376, whose value has no data.
ConfluenceStrategy1 ==
    /\ pc = "confluence"
    /\ \E r1 \in SearchOutcomes :
          LET search_terms == ExtractConfluenceSearchTerms(user_query)
          IN  /\ ConfluenceSearch(search_terms, 10, r1)
              /\ confluence_results' = r1.hits
              /\ pc' = IF r1.raises THEN "confluence_respond"
                       ELSE IF r1.hits = <<>> /\ Len(Split(search_terms)) > 1
                            THEN KeywordPc(1)
                            ELSE AfterStrategy2(r1.hits)
    /\ UNCHANGED <<chatVars, engineVars, callVars, aggVars, conversation_context,
                   projects, query_analysis, frame, all_results, result>>

\* lines 1330-1339: the search of keyword i of strategy 2; the hits are
\* deduplicated after the second keyword
ConfluenceStrategy2(i) ==
    /\ pc = KeywordPc(i)
    /\ \E k \in SearchOutcomes :
          LET search_terms == ExtractConfluenceSearchTerms(user_query)
              individual_keywords == Split(search_terms)
              extended == confluence_results \o k.hits
          IN  /\ ConfluenceSearch(individual_keywords[i], 5, k)
              /\ IF k.raises
                 THEN confluence_results' = <<>> /\ pc' = "confluence_respond"
                 ELSE IF i = 1
                      THEN confluence_results' = extended /\ pc' = KeywordPc(2)
                      ELSE /\ confluence_results' = Dedupe(extended)
                           /\ pc' = AfterStrategy2(Dedupe(extended))
    /\ UNCHANGED <<chatVars, engineVars, callVars, aggVars, conversation_context,
                   projects, query_analysis, frame, all_results, result>>

\* lines 1342-1346: the search of strategy 3
ConfluenceStrategy3 ==
    /\ pc = "confluence_broader"
    /\ \E r3 \in SearchOutcomes :
          /\ ConfluenceSearch("insurance eligibility", 10, r3)
          /\ confluence_results' =
                 IF r3.raises THEN <<>> ELSE confluence_results \o r3.hits
    /\ pc' = "confluence_respond"
    /\ UNCHANGED <<chatVars, engineVars, callVars, aggVars, conversation_context,
                   projects, query_analysis, frame, all_results, result>>

\* lines 1353-1376 and 140-146: the value _process_confluence_query returns
\* and what process_query does with it
ConfluenceReturn ==
    /\ pc = "confluence_respond"
    /\ \E out \in LlmOutcomes :
          LET search_terms == ExtractConfluenceSearchTerms(user_query)
          IN  IF confluence_results # <<>>
              THEN /\ Finish(Answer("confluence_search:" \o search_terms,
                                    GenerateConfluenceResponse(confluence_results,
                                                               out),
                                    confluence_results, "confluence_search", TRUE,
                                    Absent))
                   /\ UNCHANGED frame
              ELSE /\ pc' = "analyze"
                   /\ frame' = "docs"
                   /\ UNCHANGED result
    /\ UNCHANGED <<chatVars, engineVars, callVars, aggVars, conversation_context,
                   projects, query_analysis, all_results, doc_searches,
                   confluence_results>>

\* lines 137-146 and 1306-1376: _process_confluence_query, one step for each
\* await of confluence_client.search and one for its return
ProcessConfluenceQuery ==
    \/ ConfluenceStrategy1
    \/ \E i \in 1..2 : ConfluenceStrategy2(i)
    \/ ConfluenceStrategy3
    \/ ConfluenceReturn

\* lines 290-444: _analyze_query
AnalyzeQuery ==
    /\ pc = "analyze"
    /\ IF jira_client = "None"
       THEN query_analysis' = ErrorAnalysis
       ELSE \E ps \in GetProjects(jira_client), nlu \in NluOutcomes :
              query_analysis' =
                  IF nlu.kind = "json" THEN nlu.answer
                  ELSE AnalyzeFallback(user_query, ps.keys)  \* [] if it raised
    /\ pc' = "analyzed"
    /\ UNCHANGED <<chatVars, engineVars, callVars, aggVars, conversation_context,
                   projects, frame, all_results, doc_searches,
                   confluence_results, result>>

\* The value query_analysis["jql"] as handed to _execute_jql.
JqlOf(analysis) == IF analysis.is_list THEN analysis.jql_list ELSE analysis.jql

\* lines 148-149: the tracker fallback of an empty document search;
\* query_analysis["jql"] raises KeyError when the key is missing
FallBackToJira ==
    /\ pc = "analyzed"
    /\ frame = "docs"
    /\ IF ~query_analysis.has_jql
       THEN /\ Finish(FallbackErrorAnswer("KeyError"))
            /\ UNCHANGED <<callVars, frame>>
       ELSE /\ Call(JqlOf(query_analysis), query_analysis.intent, "docs")
            /\ UNCHANGED result
    /\ UNCHANGED <<chatVars, engineVars, aggVars, conversation_context, projects,
                   query_analysis, all_results, doc_searches,
                   confluence_results>>

\* lines 152-201: _generate_text_response is no method of the engine, so the
\* call of line 160 raises AttributeError
FallBackToJiraRespond ==
    /\ pc = "returned"
    /\ frame = "docs"
    /\ IF jql_result.results # <<>>
       THEN Finish(FallbackErrorAnswer("AttributeError"))
       ELSE Finish([Answer(query_analysis.jql,
                           [kind |-> "no_results",
                            priority |-> HasConfluencePriority(user_query)],
                           <<>>,
                           IF query_analysis.intent = Absent THEN Null
                           ELSE query_analysis.intent,
                           FALSE, "no_results")
                       EXCEPT !.jql_list = query_analysis.jql_list])
    /\ UNCHANGED <<chatVars, engineVars, callVars, aggVars, conversation_context,
                   projects, query_analysis, frame, all_results, doc_searches,
                   confluence_results>>

\* lines 205-215 and 262: the queries of the structured query are executed
ExecuteQueries ==
    /\ pc = "analyzed"
    /\ frame = "main"
    /\ IF ~query_analysis.has_jql
       THEN /\ pc' = "fallback"            \* KeyError, caught at line 286
            /\ UNCHANGED <<callVars, frame, all_results>>
       ELSE IF ~query_analysis.is_list
            THEN /\ Call(query_analysis.jql, query_analysis.intent, "single")
                 /\ UNCHANGED all_results
            ELSE /\ all_results' = <<>>
                 /\ IF query_analysis.jql_list = <<>>
                    THEN /\ pc' = "compare_respond"
                         /\ UNCHANGED <<callVars, frame>>
                    ELSE Call(query_analysis.jql_list[1], query_analysis.intent,
                              "compare")
    /\ UNCHANGED <<chatVars, engineVars, aggVars, conversation_context, projects,
                   query_analysis, doc_searches,
                   confluence_results, result>>

\* lines 216-230: the entry of the query that has returned, and the next
\* query.  An 'entities' value that is no dict raises AttributeError at line
\* 225 and again at line 234, which line 286 catches.
CollectEntity ==
    /\ pc = "returned"
    /\ frame = "compare"
    /\ IF query_analysis.entities_kind = "null"
       THEN /\ pc' = "fallback"
            /\ UNCHANGED <<callVars, frame, all_results>>
       ELSE LET n == Len(all_results) + 1
            IN  /\ all_results' =
                      Append(all_results,
                             Entry(EntityName(query_analysis, n), jql,
                                   jql_result.results, jql_result.total_count,
                                   jql_result.retrieved_count, Absent))
                /\ IF n < Len(query_analysis.jql_list)
                   THEN Call(query_analysis.jql_list[n + 1],
                             query_analysis.intent, "compare")
                   ELSE /\ pc' = "compare_respond"
                        /\ UNCHANGED <<callVars, frame>>
    /\ UNCHANGED <<chatVars, engineVars, aggVars, conversation_context, projects,
                   query_analysis, doc_searches,
                   confluence_results, result>>

\* lines 243-259; query_analysis["intent"] raises KeyError when the key is
\* missing, after the turn was appended
RespondComparison ==
    /\ pc = "compare_respond"
    /\ \E out \in LlmOutcomes :
          LET response == GenerateComparisonResponse(all_results, out)
              combined_jql == JoinWith(" | ", query_analysis.jql_list)
          IN  /\ conversation_context' =
                    AddContext(conversation_context,
                               Turn(user_query, combined_jql,
                                    Len(FlatResults(all_results)), response))
              /\ IF query_analysis.intent = Absent
                 THEN pc' = "fallback" /\ UNCHANGED result
                 ELSE Finish([Answer(combined_jql, response, all_results,
                                     query_analysis.intent, TRUE, Absent)
                                 EXCEPT !.has_comparison_data = TRUE])
    /\ UNCHANGED <<chatVars, engineVars, callVars, aggVars, projects, query_analysis,
                   frame, all_results, doc_searches,
                   confluence_results>>

\* lines 263-284: the answer to a single query
RespondSingle ==
    /\ pc = "returned"
    /\ frame = "single"
    /\ results' = jql_result.results
    /\ total_count' = jql_result.total_count
    /\ retrieved_count' = Some(jql_result.retrieved_count)
    /\ data_summary' = DataSummary(jql_result.results, jql_result.total_count,
                                   Some(jql_result.retrieved_count))
    /\ UNCHANGED analysis_dict
    /\ \E out \in LlmOutcomes :
          LET response == GenerateResponse(user_query, query_analysis,
                                           jql_result.results, out)
          IN  /\ conversation_context' =
                    AddContext(conversation_context,
                               Turn(user_query, query_analysis.jql,
                                    Len(jql_result.results), response))
              /\ IF query_analysis.intent = Absent
                 THEN pc' = "fallback" /\ UNCHANGED result
                 ELSE Finish(Answer(query_analysis.jql, response,
                                    jql_result.results, query_analysis.intent,
                                    TRUE, Absent))
    /\ UNCHANGED <<chatVars, engineVars, callVars, projects, query_analysis, frame,
                   all_results, doc_searches,
                   confluence_results>>

\* lines 802-876: _fallback_processing up to its query
FallbackProcessing ==
    /\ pc = "fallback"
    /\ IF jira_client = "None"
       THEN /\ Finish(ErrorAnswer("AttributeError"))
            /\ UNCHANGED <<callVars, frame, projects>>
       ELSE \E ps \in GetProjects(jira_client) :
              IF ps.raises
              THEN /\ Finish(ErrorAnswer("get_projects failed"))
                   /\ UNCHANGED <<callVars, frame, projects>>
              ELSE /\ projects' = ps.keys
                   /\ Call(FallbackJql(user_query, ps.keys), "enhanced_fallback",
                           "fallback")
                   /\ UNCHANGED result
    /\ UNCHANGED <<chatVars, engineVars, aggVars, conversation_context, query_analysis,
                   all_results, doc_searches,
                   confluence_results>>

\* lines 877-902: the answer of _fallback_processing
FallbackRespond ==
    /\ pc = "returned"
    /\ frame = "fallback"
    /\ IF EnhancedFallbackRaises(jql_result.results)
       THEN Finish(ErrorAnswer("AttributeError"))
       ELSE Finish(Answer(jql,
                          EnhancedFallbackResponse(user_query, projects,
                                                   jql_result.results),
                          jql_result.results, "enhanced_fallback", TRUE, Absent))
    /\ UNCHANGED <<chatVars, engineVars, callVars, aggVars, conversation_context,
                   projects, query_analysis, frame, all_results, doc_searches,
                   confluence_results>>

(***************************************************************************)
(* Spec: one request served by process_query, for any configuration of the *)
(* engine and any of the sample utterances.                                *)
(***************************************************************************)
SampleQueries ==
    { "show open bugs for ashwin",
      "CCM-283 details",
      "compare CCM vs TI projects",
      "insurance eligibility bug",
      "please check wiki for onboarding",
      "user guide for the bug tracker",
      "quarterly report",
      "report on ab-1" }

Init ==
    /\ jira_client \in {"None", "JiraClient", "Stub"}
    /\ client \in {"None", "OpenAI"}
    /\ confluence_client \in {"None", "Confluence"}
    /\ user_query \in SampleQueries
    /\ server = <<>>
    /\ cur = 0
    /\ pc = "start"
    /\ ExecIdle
    /\ AggIdle
    /\ conversation_context = <<>>
    /\ projects = <<>>
    /\ query_analysis = NoAnalysis
    /\ frame = ""
    /\ all_results = <<>>
    /\ doc_searches = <<>>
    /\ confluence_results = <<>>
    /\ result = NoAnswer
    /\ ChatIdle

Next ==
    \/ ProcessQuery
    \/ ProcessConfluenceQuery
    \/ AnalyzeQuery
    \/ FallBackToJira
    \/ FallBackToJiraRespond
    \/ ExecuteQueries
    \/ ExecuteLowerRaises
    \/ ExecuteCountOnly
    \/ ExecuteFetchPage
    \/ CollectEntity
    \/ RespondComparison
    \/ RespondSingle
    \/ FallbackProcessing
    \/ FallbackRespond

Spec == Init /\ [][Next]_vars

(***************************************************************************)
(* SpecRoute: the routing decision at the entry of process_query, for the  *)
(* utterances of at most MaxWords of the words below and any configuration *)
(* of the two optional clients.                                            *)
(***************************************************************************)
RouteWords ==
    {"report", "analysis", "bug", "Ticket", "guide", "manual", "x=1", "ab-1",
     "wiki", "check docs", "getting started"}

InitRoute ==
    /\ jira_client = "JiraClient"
    /\ client \in {"None", "OpenAI"}
    /\ confluence_client \in {"None", "Confluence"}
    /\ user_query \in Utterances(RouteWords, MaxWords)
    /\ server = <<>>
    /\ cur = 0
    /\ pc = "start"
    /\ ExecIdle
    /\ AggIdle
    /\ conversation_context = <<>>
    /\ projects = <<>>
    /\ query_analysis = NoAnalysis
    /\ frame = ""
    /\ all_results = <<>>
    /\ doc_searches = <<>>
    /\ confluence_results = <<>>
    /\ result = NoAnswer
    /\ ChatIdle

NextRoute == ProcessQuery

SpecRoute == InitRoute /\ [][NextRoute]_vars

(***************************************************************************)
(* SpecChat: the chat endpoint of main.py (lines 1455-1527) serving the    *)
(* requests of several sessions with the one engine of the application.    *)
(* A request runs up to an await that returns to the event loop and is     *)
(* resumed in a later step, and the requests of the sessions interleave    *)
(* there: at the document search (line 1325), at get_projects (lines 300   *)
(* and 806) and at the tracker search (lines 465 and 502).  A request that *)
(* suspends again at the place where it is, for a further page, a further  *)
(* query of a comparison or a further document search, leaves the state as *)
(* it is.  The calls of the text-generation service do not suspend.  A     *)
(* session sends its next request when the one before is answered.  Query  *)
(* building, retrieval and response generation are those of Spec; here a   *)
(* request is followed for what it appends to and reads from the           *)
(* conversation context.                                                   *)
(***************************************************************************)
MaxRequests == 3

\* seq[-n:]
LastOf(seq, n) ==
    IF Len(seq) <= n THEN seq ELSE SubSeq(seq, Len(seq) - n + 1, Len(seq))

\* intelligent_ai_engine.py lines 306-309: the window of the query builder
RecentContext(context) == LastOf(context, 3)

\* add_context called for each of the turns, in order
RECURSIVE AddAll(_, _)
AddAll(context, turns) ==
    IF turns = <<>> THEN context
    ELSE AddAll(AddContext(context, Head(turns)), Tail(turns))

\* The texts a client sends are told apart by the session and a number.
Text(s, n, i) == s \o ToString(n) \o "." \o ToString(i)

\* A ChatRequest (main.py lines 159-163) of session s, sent after n appends.
ChatRequest(s, n, messages, project, cached) ==
    [message |-> Text(s, n, 0),
     messages |-> [i \in 1..messages |-> Text(s, n, i)],
     projectContext |-> project,
     cachedProjects |-> [i \in 1..cached |-> [k |-> "TI", v |-> Text(s, n, 9)]]]

ChatRequests(s, n) ==
    { ChatRequest(s, n, 0, Null, 0), ChatRequest(s, n, 2, "CCM", 0),
      ChatRequest(s, n, 6, "", 1) }

\* The requests received so far.
RECURSIVE Received(_)
Received(sessions) ==
    IF sessions = {} THEN 0
    ELSE LET s == CHOOSE x \in sessions : TRUE
         IN  chat[s].served + Received(sessions \ {s})

\* main.py lines 1489-1501: the turns seeded from a request
SeedTurns(request) ==
    LET recent == LastOf(request.messages, 5)
    IN  [i \in 1..Len(recent) |-> Turn(recent[i], "", 0, "")]
        \o (IF Truthy(request.projectContext)       \* line 1495
            THEN <<Turn("Project context: " \o request.projectContext, "", 0, "")>>
            ELSE <<>>)
        \o [i \in 1..Len(request.cachedProjects) |->
              Turn("Cached project " \o request.cachedProjects[i].k \o ": "
                     \o request.cachedProjects[i].v, "", 0, "")]

\* The turns, each with the session and the number of the request that
\* handed it to add_context and the function that made the call.
Tagged(s, r, caller, turns) ==
    [i \in 1..Len(turns) |->
        [session |-> s, request |-> r, caller |-> caller, turn |-> turns[i]]]

\* The shapes of what _analyze_query returns (lines 415-443): a query with
\* its intent; valid JSON with a 'jql' and no 'intent'; valid JSON that has
\* no 'jql' or is no object.
AnalysisShapes == {"query", "no_intent", "no_jql"}

\* main.py lines 1505-1527: process_query has returned and the handler
\* answers the request of session s; the locals of the request are gone.
ChatReply(s) ==
    /\ chat' = [chat EXCEPT ![s] = [NoRequest EXCEPT !.reply = "response",
                                                    !.served = chat[s].served]]
    /\ completed' = Append(completed, chat[s].request)

chatRest ==
    <<jira_client, server, cur, pc, execVars, aggVars, client,
      confluence_client, user_query, projects, query_analysis, frame,
      all_results, doc_searches, confluence_results, result, app_state,
      handlers>>

\* main.py lines 1455-1503 with intelligent_ai_engine.py lines 72-137 and
\* 205: the handler up to the first suspension inside process_query.  The
\* engine is created on the first request and kept; without engine and
\* tracker client the request is answered by the error of line 1481.  The
\* turns of the request are seeded; then process_query goes to
\* _fallback_processing when it has no text-generation client, to the
\* document search when the routing rules choose the documents and a
\* document client is there, and to _analyze_query otherwise.
ChatBegin(s) ==
    /\ chat[s].pc = "idle"
    /\ Received(Sessions) < MaxRequests
    /\ \E request \in ChatRequests(s, Len(history)) :
          LET r == Received(Sessions) + 1
              begun == [NoRequest EXCEPT !.request = r,
                                         !.message = request.message,
                                         !.served = chat[s].served + 1]
          IN  IF ai_engine = "None" /\ jira_client = "None"
              THEN /\ chat' = [chat EXCEPT ![s] = [begun EXCEPT !.reply = "error"]]
                   /\ completed' = Append(completed, r)
                   /\ UNCHANGED <<ai_engine, conversation_context, history>>
              ELSE /\ ai_engine' = "Engine"
                   /\ conversation_context' =
                          AddAll(conversation_context, SeedTurns(request))
                   /\ history' = history \o Tagged(s, r, "chat_endpoint",
                                                   SeedTurns(request))
                   /\ UNCHANGED completed
                   /\ IF client = "None"
                      THEN chat' = [chat EXCEPT ![s] =
                                       [begun EXCEPT !.pc = "fallback_projects",
                                                     !.route = "fallback"]]
                      ELSE \E documents \in (IF confluence_client # "None"
                                             THEN BOOLEAN ELSE {FALSE}) :
                              chat' = [chat EXCEPT ![s] =
                                  IF documents
                                  THEN [begun EXCEPT !.pc = "documents",
                                                     !.route = "documents"]
                                  ELSE [begun EXCEPT !.pc = "projects",
                                                     !.frame = "main"]]
    /\ UNCHANGED chatRest

\* intelligent_ai_engine.py lines 137-148 and 1325-1376: the document search
\* is over.  With hits the request is answered from them; without, it goes
\* on to _analyze_query inside the try of line 147.
ChatDocuments(s) ==
    /\ chat[s].pc = "documents"
    /\ \E hits \in BOOLEAN :
          IF hits
          THEN ChatReply(s)
          ELSE /\ chat' = [chat EXCEPT ![s].pc = "projects", ![s].frame = "docs"]
               /\ UNCHANGED completed
    /\ UNCHANGED <<chatRest, ai_engine, conversation_context, history>>

\* intelligent_ai_engine.py lines 300-443, 149 and 208-262: get_projects has
\* returned or raised, the query builder reads its window and returns what
\* the text-generation service answered, or the query of its except branch.
\* Reading the 'jql' of an answer that has none raises: inside the try of
\* line 147 the request is answered by the error of lines 192-201, inside
\* that of line 203 it goes on to _fallback_processing (line 288).
\* Otherwise the request suspends in the tracker search.  The engine has a
\* tracker client (main.py lines 1476-1477), so line 296 is not taken.  A
\* comparison of no queries goes on to line 243 without suspending, which is
\* this step and ChatExecute one after the other.  What a request
\* read that is answered in this very step stays on record until the session
\* sends its next request.
ChatAnalyze(s) ==
    /\ chat[s].pc = "projects"
    /\ \E shape \in AnalysisShapes :
          LET read == [chat[s] EXCEPT
                          !.route = "tracker",
                          !.analysis = shape,
                          !.recent_context = RecentContext(conversation_context),
                          !.read_at = Len(history),
                          !.previous = IF completed = <<>> THEN 0
                                       ELSE completed[Len(completed)]]
          IN  IF shape # "no_jql"
              THEN /\ chat' = [chat EXCEPT ![s] = [read EXCEPT !.pc = "search"]]
                   /\ UNCHANGED completed
              ELSE IF chat[s].frame = "main"
                   THEN /\ chat' = [chat EXCEPT ![s] =
                                       [read EXCEPT !.pc = "fallback_projects"]]
                        /\ UNCHANGED completed
                   ELSE /\ chat' = [chat EXCEPT ![s] =
                                       [read EXCEPT !.pc = "idle",
                                                    !.reply = "response"]]
                        /\ completed' = Append(completed, chat[s].request)
    /\ UNCHANGED <<chatRest, ai_engine, conversation_context, history>>

\* intelligent_ai_engine.py lines 149-201 and 243-288: the last search of the
\* request has returned.  Inside the try of line 147 the request is answered
\* and appends nothing.  Inside that of line 203 the response is generated
\* and the turn is appended (line 250 or 276), unless joining the queries of
\* a comparison raises before (line 246); then the answer is built, which
\* reads the 'intent' of the analysis (line 256 or 282): when there is none,
\* the KeyError takes the request, its turn appended, to
\* _fallback_processing (line 288), where it suspends in get_projects.
ChatExecute(s) ==
    /\ chat[s].pc = "search"
    /\ IF chat[s].frame = "docs"
       THEN /\ ChatReply(s)
            /\ UNCHANGED <<conversation_context, history>>
       ELSE \E raises \in BOOLEAN :
               IF raises
               THEN /\ chat' = [chat EXCEPT ![s].pc = "fallback_projects"]
                    /\ UNCHANGED <<conversation_context, history, completed>>
               ELSE LET turn == Turn(chat[s].message, "project = \"CCM\"", 1,
                                     "answer")
                    IN  /\ conversation_context' =
                               AddContext(conversation_context, turn)
                        /\ history' =
                               history \o Tagged(s, chat[s].request,
                                                 "process_query", <<turn>>)
                        /\ IF chat[s].analysis = "no_intent"
                           THEN /\ chat' = [chat EXCEPT
                                               ![s].pc = "fallback_projects"]
                                /\ UNCHANGED completed
                           ELSE ChatReply(s)
    /\ UNCHANGED <<chatRest, ai_engine>>

\* intelligent_ai_engine.py lines 804-876 and 894-902: get_projects of
\* _fallback_processing has returned or raised.  When it raised the request
\* is answered by the error of lines 896-902; otherwise the query is built
\* without the context and the request suspends in the tracker search.
ChatFallback(s) ==
    /\ chat[s].pc = "fallback_projects"
    /\ \E raises \in BOOLEAN :
          IF raises
          THEN ChatReply(s)
          ELSE /\ chat' = [chat EXCEPT ![s].pc = "fallback_search"]
               /\ UNCHANGED completed
    /\ UNCHANGED <<chatRest, ai_engine, conversation_context, history>>

\* intelligent_ai_engine.py lines 876-892 and main.py lines 1503-1527: the
\* search of _fallback_processing is over, and the request is answered; no
\* turn is appended.
ChatRespond(s) ==
    /\ chat[s].pc = "fallback_search"
    /\ ChatReply(s)
    /\ UNCHANGED <<chatRest, ai_engine, conversation_context, history>>

InitChat ==
    /\ jira_client \in {"None", "JiraClient"}
    /\ client \in {"None", "OpenAI"}
    /\ confluence_client \in {"None", "Confluence"}
    /\ server = <<>>
    /\ cur = 0
    /\ pc = "chat"
    /\ ExecIdle
    /\ AggIdle
    /\ conversation_context = <<>>
    /\ user_query = ""
    /\ projects = <<>>
    /\ query_analysis = NoAnalysis
    /\ frame = ""
    /\ all_results = <<>>
    /\ doc_searches = <<>>
    /\ confluence_results = <<>>
    /\ result = NoAnswer
    /\ ChatIdle

NextChat ==
    \E s \in Sessions :
        \/ ChatBegin(s)
        \/ ChatDocuments(s)
        \/ ChatAnalyze(s)
        \/ ChatExecute(s)
        \/ ChatFallback(s)
        \/ ChatRespond(s)

SpecChat == InitChat /\ [][NextChat]_vars

(***************************************************************************)
(* SpecApp: the tracker client of the application state under the handlers *)
(* of main.py.  app_state.jira_client is the number of the client stored,  *)
(* 0 for None; app_state.confluence_client says whether a document client  *)
(* is stored; app_state.ai_engine is None or the engine with the clients   *)
(* it was made with; http[c] is "open" while client c holds an HTTP client *)
(* (its _client is not None); chats logs, for each chat request, the       *)
(* client stored when it was received and the client its tracker calls     *)
(* went to, 0 when it made none.  A handler runs up to an await that       *)
(* returns to the event loop and is resumed in a later step; handlers      *)
(* holds those suspended, in the order they began, each with its local     *)
(* client c, its entry k of chats and its position.  JiraClient.initialize *)
(* has no such await, get_projects, search and close have (jira_client.py  *)
(* lines 76, 134, 146).  At most MaxClients clients are made, MaxChats     *)
(* chat requests received and MaxDisconnects disconnects suspended at a    *)
(* time.                                                                   *)
(***************************************************************************)
MaxClients == 3
MaxChats == 2
MaxDisconnects == 2

appRest ==
    <<jira_client, server, cur, pc, execVars, aggVars, procVars, ai_engine,
      chat, history, completed>>

\* jira_client.py lines 31-39 and 143-147: initialize and close
Initialize(http, c) == [http EXCEPT ![c] = "open"]
Close(http, c) == [http EXCEPT ![c] = "closed"]

Handler(op, c, k, at) == [op |-> op, c |-> c, k |-> k, pc |-> at]

Suspended(op) == {i \in 1..Len(handlers) : handlers[i].op = op}

\* The handlers suspended once the one at position i has returned.
HandlersWithout(i) == SubSeq(handlers, 1, i - 1) \o SubSeq(handlers, i + 1, Len(handlers))

\* IntelligentAIEngine(app_state.jira_client, app_state.confluence_client),
\* made when there is no engine
EnsureAiEngine ==
    IF IsNone(app_state.ai_engine)
    THEN Some([jira_client |-> app_state.jira_client,
               confluence_client |-> app_state.confluence_client])
    ELSE app_state.ai_engine

\* main.py lines 985-1009: a new client is made and initialized, and the
\* handler awaits get_projects on it
ConfigureJira ==
    /\ Len(app_state.http) < MaxClients
    /\ app_state' = [app_state EXCEPT !.http = Append(@, "open")]
    /\ handlers' = Append(handlers,
                          Handler("configure", Len(app_state.http) + 1, 0,
                                  "projects"))
    /\ UNCHANGED appRest

\* main.py lines 1010-1061: get_projects has returned or raised; the client
\* is stored, and a document client is stored with it unless making it
\* fails (lines 1048-1051)
ConfigureJiraStore ==
    \E i \in Suspended("configure"), confluence \in BOOLEAN :
        /\ app_state' = [app_state EXCEPT
                            !.jira_client = handlers[i].c,
                            !.confluence_client = @ \/ confluence]
        /\ handlers' = HandlersWithout(i)
        /\ UNCHANGED appRest

\* main.py lines 1111-1140: a document client is stored, or making it fails
ConfigureConfluence ==
    /\ \E stored \in BOOLEAN :
          app_state' = [app_state EXCEPT !.confluence_client = @ \/ stored]
    /\ UNCHANGED <<appRest, handlers>>

\* main.py lines 1066-1072: the handler awaits close on the stored client;
\* without a stored client it goes on to lines 1075-1082 at once
DisconnectJira ==
    /\ IF app_state.jira_client # 0
       THEN /\ Cardinality(Suspended("disconnect")) < MaxDisconnects
            /\ handlers' = Append(handlers,
                                  Handler("disconnect", app_state.jira_client, 0,
                                          "aclose"))
            /\ UNCHANGED app_state
       ELSE /\ app_state' = [app_state EXCEPT !.jira_client = 0]
            /\ UNCHANGED handlers
    /\ UNCHANGED appRest

\* jira_client.py lines 146-147 and main.py lines 1075-1086: aclose has
\* returned or raised.  When it returned, the client that was closed drops
\* its HTTP client and whatever client is stored by now is forgotten.  When
\* it raised, the client keeps its HTTP client, the clearing is skipped and
\* the handler answers with status 500, the client still stored.
DisconnectJiraClear ==
    \E i \in Suspended("disconnect"), raises \in BOOLEAN :
        /\ app_state' = IF raises THEN app_state
                         ELSE [app_state EXCEPT
                                  !.http = Close(@, handlers[i].c),
                                  !.jira_client = 0]
        /\ handlers' = HandlersWithout(i)
        /\ UNCHANGED appRest

\* main.py lines 1179-1186, 1203-1211, 1235-1242, 1265-1273, 1297-1307,
\* 1556-1570, 1628-1642, 1915-1933: the handlers that make the engine when
\* there is none, a client being stored; they refuse without one.  Some of
\* them initialize the stored client or search on it (lines 1217, 1563-1565,
\* 1635-1637, 1933).
EnsureEngineHandler ==
    /\ app_state.jira_client # 0
    /\ \E opens \in BOOLEAN :
          app_state' =
              [app_state EXCEPT
                  !.ai_engine = EnsureAiEngine,
                  !.http = IF opens THEN Initialize(@, app_state.jira_client)
                           ELSE @]
    /\ UNCHANGED <<appRest, handlers>>

\* The engine's tracker client receives a call of the chat request of entry k
\* of chats: it opens its HTTP client when it has none (jira_client.py lines
\* 56-57 and 129-130).
TrackerCall(state, c, k) ==
    [state EXCEPT !.http = Initialize(@, c), !.chats[k].used = c]

\* main.py lines 1455-1503 with intelligent_ai_engine.py lines 72-137, 300
\* and 806: the stored client is initialized when it has no HTTP client, the
\* engine is made from the stored client when there is none (without both
\* the request is answered by the error of line 1481), and process_query
\* runs on the engine up to its first await: a document search when the
\* engine has a text-generation client and a document client and the
\* routing rules choose the documents, get_projects on the engine's tracker
\* client otherwise.
ChatEndpoint ==
    /\ Len(app_state.chats) < MaxChats
    /\ LET stored == app_state.jira_client
           k == Len(app_state.chats) + 1
           received ==
               [app_state EXCEPT
                   !.http = IF stored # 0 THEN Initialize(@, stored) ELSE @,
                   !.chats = Append(@, [stored |-> stored, used |-> 0])]
       IN  IF IsNone(app_state.ai_engine) /\ stored = 0
           THEN app_state' = received /\ UNCHANGED handlers
           ELSE LET engine == Val(EnsureAiEngine)
                    begun == [received EXCEPT !.ai_engine = EnsureAiEngine]
                IN  \E documents \in
                          (IF client = "OpenAI" /\ engine.confluence_client
                           THEN BOOLEAN ELSE {FALSE}) :
                       IF documents
                       THEN /\ app_state' = begun
                            /\ handlers' =
                                   Append(handlers,
                                          Handler("chat", engine.jira_client, k,
                                                  "documents"))
                       ELSE /\ app_state' =
                                   TrackerCall(begun, engine.jira_client, k)
                            /\ handlers' =
                                   Append(handlers,
                                          Handler("chat", engine.jira_client, k,
                                                  "projects"))
    /\ UNCHANGED appRest

\* intelligent_ai_engine.py lines 137-149, 205-262, 465, 502 and 876, main.py
\* lines 1505-1527: the await of the chat request returns.  After an empty
\* document search the request goes on to get_projects; after get_projects
\* and after a search it makes a search or none; otherwise the handler
\* returns.
ChatEndpointResume ==
    \E i \in Suspended("chat"), calls \in BOOLEAN :
        /\ IF calls
           THEN /\ app_state' = TrackerCall(app_state, handlers[i].c,
                                            handlers[i].k)
                /\ handlers' =
                       [handlers EXCEPT
                           ![i].pc = IF @ = "documents" THEN "projects"
                                     ELSE "search"]
           ELSE /\ handlers' = HandlersWithout(i)
                /\ UNCHANGED app_state
        /\ UNCHANGED appRest

InitApp ==
    /\ jira_client = "None"
    /\ client \in {"None", "OpenAI"}
    /\ confluence_client = "None"
    /\ server = <<>>
    /\ cur = 0
    /\ pc = "app"
    /\ ExecIdle
    /\ AggIdle
    /\ conversation_context = <<>>
    /\ user_query = ""
    /\ projects = <<>>
    /\ query_analysis = NoAnalysis
    /\ frame = ""
    /\ all_results = <<>>
    /\ doc_searches = <<>>
    /\ confluence_results = <<>>
    /\ result = NoAnswer
    /\ ChatIdle

NextApp ==
    \/ ConfigureJira
    \/ ConfigureJiraStore
    \/ ConfigureConfluence
    \/ DisconnectJira
    \/ DisconnectJiraClear
    \/ EnsureEngineHandler
    \/ ChatEndpoint
    \/ ChatEndpointResume

SpecApp == InitApp /\ [][NextApp]_vars

(***************************************************************************)
(* Properties of _execute_jql, checked under SpecExecute.                  *)
(***************************************************************************)
Returned == pc = "returned"
FullFetch == ~IsCountOnly(jql, query_intent)
CeilDiv(a, b) == (a + b - 1) \div b

\* C3: a full fetch from a well-behaved server holding T records issues
\* exactly ceil(T/100) page requests (one when T = 0), at offsets 0, 100,
\* 200, ..., each for 100 records, and returns retrieved_count = T.
C3_FullFetchExhaustsServer ==
    (Returned /\ FullFetch /\ jira_client # "None" /\ ~server[cur].flaky) =>
        LET T == server[cur].T
        IN  /\ Len(requests) = (IF T = 0 THEN 1 ELSE CeilDiv(T, PageSize))
            /\ \A i \in 1..Len(requests) :
                  /\ requests[i].start_at = (i - 1) * PageSize
                  /\ requests[i].max_results = PageSize
            /\ jql_result.retrieved_count = T
            /\ Len(jql_result.results) = T

C3_Witness ==
    /\ Returned /\ FullFetch /\ jira_client = "JiraClient" /\ ~server[cur].flaky
    /\ server[cur].T = 2 * PageSize + 37
    /\ Len(requests) = 3
    /\ jql_result.retrieved_count = 2 * PageSize + 37

\* C4: in count-only mode at most one request is made, it asks for zero
\* records, and the value returned has no records and retrieved_count = 0,
\* whatever the server answered.
C4_CountOnlyOneRequestNoRecords ==
    IsCountOnly(jql, query_intent) =>
        /\ Len(requests) <= 1
        /\ \A i \in 1..Len(requests) : requests[i].max_results = 0
        /\ Returned => (jql_result.results = <<>> /\ jql_result.retrieved_count = 0)

C4_Witness ==
    /\ Returned /\ IsCountOnly(jql, query_intent) /\ server[cur].flaky
    /\ Len(requests) = 1
    /\ jql_result.is_count_only
    /\ jql_result.total_count = Some(2 * PageSize + 37)

\* C5: a full fetch that ends without error reports as total_count the total
\* the first page declared.
C5_ReportedTotalIsFirstPageTotal ==
    (Returned /\ FullFetch /\ jql_result.error = Absent /\ requests # <<>>
       /\ ~IsNone(requests[1].declared)) =>
        jql_result.total_count = requests[1].declared

\* C7: an exception raised by the search or while a page is parsed, in either
\* mode and on any page, ends the call with the value {results: [],
\* total_count: 0, retrieved_count: 0, error: <message>}.
C7_ExceptionBecomesErrorResult ==
    raised # Absent =>
        /\ Returned
        /\ jql_result.results = <<>>
        /\ jql_result.total_count = Some(0)
        /\ jql_result.retrieved_count = 0
        /\ jql_result.error = raised

C7_Witness ==
    /\ raised # Absent /\ Returned /\ FullFetch
    /\ Len(requests) >= 2
    /\ all_issues # <<>>
    /\ jql_result.results = <<>>

\* C20: when a request of the query failed at transport level (the GET raised
\* or answered a status other than 200), the value _execute_jql returns has no
\* records and carries a non-empty error.
C20_TransportFailureGivesErrorResult ==
    (Returned /\ \E i \in 1..Len(requests) : requests[i].transport # "ok") =>
        /\ jql_result.results = <<>>
        /\ jql_result.error \notin {Absent, ""}

\* The total the first page declared, 0 when it declared none.
FirstPageTotal ==
    IF requests # <<>> /\ ~IsNone(requests[1].declared)
    THEN Val(requests[1].declared) ELSE 0

\* C21: a full fetch issues its requests at offsets 0, 100, 200, ..., each for
\* 100 records; it goes on to the next request only after full pages the last
\* of which has its offset + 100 below the total, so that an empty page, a
\* short page or a page reaching the total is the last one requested;
\* whatever the server answers, it makes at most max(1, ceil(T1/100))
\* requests, T1 being the total the first page declared.
C21_PaginationStopsWithinFirstPageTotal ==
    (FullFetch /\ jira_client # "None" /\ requests # <<>>) =>
        /\ \A i \in 1..Len(requests) :
              /\ requests[i].start_at = (i - 1) * PageSize
              /\ requests[i].max_results = PageSize
        /\ Len(requests) <= (IF FirstPageTotal = 0 THEN 1
                             ELSE CeilDiv(FirstPageTotal, PageSize))
        /\ pc = "execute" =>
              /\ start_at = PageSize * Len(requests)
              /\ Len(all_issues) = PageSize * Len(requests)
              /\ start_at < FirstPageTotal
        /\ Returned => ~ENABLED ExecuteFetchPage

C21_Witness ==
    /\ Returned /\ FullFetch /\ jira_client = "JiraClient" /\ server[cur].flaky
    /\ FirstPageTotal = 3 * PageSize + 37
    /\ Len(requests) = 4
    /\ jql_result.error = Absent

\* C22: the records a full fetch returns have pairwise different keys.
C22_ReturnedKeysAreDistinct ==
    (Returned /\ FullFetch) =>
        \A i, j \in 1..Len(jql_result.results) :
            (i < j /\ jql_result.results[i].key # Absent) =>
                jql_result.results[i].key # jql_result.results[j].key

\* The query, lower-cased, holds one of the two phrases.
HasCountPhrase ==
    \E phrase \in {"count", "group by"} : Contains(phrase, Lower(jql))

\* C23: the one request of a count-only run asks for zero records and every
\* request of a full fetch for 100; the run is count-only exactly when the
\* intent is count_items, story_count or issue_count or the lower-cased query
\* holds 'count' or 'group by', and a query holding 'count' is count-only
\* under every intent.
C23_CountOnlyExactlyOnIntentOrPhrase ==
    (Returned /\ requests # <<>>) =>
        LET count_only ==
                \/ query_intent \in {"count_items", "story_count", "issue_count"}
                \/ HasCountPhrase
        IN  /\ count_only => requests[1].max_results = 0
            /\ ~count_only => requests[1].max_results = PageSize
            /\ jql_result.error = Absent =>
                  (jql_result.is_count_only <=> count_only)
            /\ HasCountPhrase => requests[1].max_results = 0

C23_Witness ==
    /\ Returned
    /\ jql = "assignee = \"Count Dracula\""
    /\ query_intent = "list_items"
    /\ Len(requests) = 1 /\ requests[1].max_results = 0
    /\ jql_result.is_count_only

(***************************************************************************)
(* Properties of _create_detailed_analysis, checked under SpecSummarize.   *)
(***************************************************************************)
Summarized == pc = "summarized" /\ results # <<>>

\* The number of records whose field holds v, a missing or null field holding
\* the default.
Having(field, default, v) ==
    Cardinality({i \in 1..Len(results) :
        IF results[i][field] \in {Absent, Null} THEN v = default
        ELSE results[i][field] = v})

RECURSIVE SumCounts(_)
SumCounts(d) == IF d = <<>> THEN 0 ELSE Head(d).n + SumCounts(Tail(d))

\* The breakdown d maps each value of the field to the number of records
\* having it, each value once, and its counts sum to the number of records.
IsBreakdown(d, field, default) ==
    /\ \A i, j \in 1..Len(d) : d[i].k = d[j].k => i = j
    /\ \A i \in 1..Len(d) : d[i].n = Having(field, default, d[i].k) /\ d[i].n > 0
    /\ \A i \in 1..Len(results) :
          \E j \in 1..Len(d) : Having(field, default, d[j].k) > 0
              /\ (IF results[i][field] \in {Absent, Null} THEN default
                  ELSE results[i][field]) = d[j].k
    /\ SumCounts(d) = Len(results)

\* C8: each of the five categorical breakdowns maps each value to the number
\* of records having that value, a missing field counting under its default,
\* so the counts of a breakdown sum to the number of records.
C8_BreakdownsCountRecords ==
    Summarized =>
        /\ IsBreakdown(data_summary.by_assignee, "assignee", "Unassigned")
        /\ IsBreakdown(data_summary.by_reporter, "reporter", "Unknown")
        /\ IsBreakdown(data_summary.by_status, "status", "Unknown")
        /\ IsBreakdown(data_summary.by_type, "issuetype", "Unknown")
        /\ IsBreakdown(data_summary.by_priority, "priority", "Unknown")

C8_Witness ==
    /\ Summarized
    /\ results = <<IssueAt(1), IssueAt(2), IssueAt(4)>>
    /\ data_summary.by_assignee = <<[k |-> "Alice", n |-> 2], [k |-> "Bob", n |-> 1]>>

\* C9: the summary of a non-empty result set says the dataset is complete
\* exactly when the declared total equals the retrieved count, and otherwise
\* says that only retrieved_count of total_count items were analysed.
C9_CompleteIffTotalIsRetrieved ==
    (Summarized /\ ~IsNone(total_count) /\ ~IsNone(retrieved_count)) =>
        LET t == Val(total_count)
            r == Val(retrieved_count)
        IN  /\ Contains("complete dataset", data_summary.count_line) <=> (t = r)
            /\ (t = r) => data_summary.count_line =
                   "Found " \o ToString(t) \o " total items (complete dataset analyzed):"
            /\ (t # r) => data_summary.count_line =
                   "Showing segregations for " \o ToString(r) \o " issues (out of "
                       \o ToString(t) \o " total)."

C9_Witness ==
    /\ Summarized /\ Len(results) = 3
    /\ total_count = Some(10) /\ retrieved_count = Some(3)
    /\ data_summary.count_line = "Showing segregations for 3 issues (out of 10 total)."

\* C12: the second run of the aggregation on the same records returns the
\* summary the first run returned, breakdown for breakdown, whatever the
\* first run left behind, and no step of either run changes the records.
C12_SummarizeTwiceSameBreakdowns ==
    [][/\ pc \in {"summarize", "summarized"} \cup InLoop => results' = results
       /\ (pc = "summarize_again_loop" /\ pc' = "summarized_twice") =>
              /\ data_summary' = data_summary
              /\ data_summary'.by_assignee = data_summary.by_assignee
              /\ data_summary'.by_reporter = data_summary.by_reporter
              /\ data_summary'.by_status = data_summary.by_status
              /\ data_summary'.by_type = data_summary.by_type
              /\ data_summary'.by_priority = data_summary.by_priority
       /\ (pc = "summarized" /\ pc' = "summarized_twice") =>
              data_summary' = data_summary]_vars

C12_Witness ==
    /\ pc = "summarized_twice"
    /\ results = <<IssueAt(1), IssueAt(2), IssueAt(4)>>
    /\ data_summary.by_assignee = <<[k |-> "Alice", n |-> 2], [k |-> "Bob", n |-> 1]>>

(***************************************************************************)
(* Properties of the deterministic query builders, checked under           *)
(* SpecBuild.                                                              *)
(***************************************************************************)
UpperChar(c) ==
    CASE c = "a" -> "A" [] c = "b" -> "B" [] c = "c" -> "C" [] c = "d" -> "D"
      [] c = "e" -> "E" [] c = "f" -> "F" [] c = "g" -> "G" [] c = "h" -> "H"
      [] c = "i" -> "I" [] c = "j" -> "J" [] c = "k" -> "K" [] c = "l" -> "L"
      [] c = "m" -> "M" [] c = "n" -> "N" [] c = "o" -> "O" [] c = "p" -> "P"
      [] c = "q" -> "Q" [] c = "r" -> "R" [] c = "s" -> "S" [] c = "t" -> "T"
      [] c = "u" -> "U" [] c = "v" -> "V" [] c = "w" -> "W" [] c = "x" -> "X"
      [] c = "y" -> "Y" [] c = "z" -> "Z" [] OTHER -> c

RECURSIVE Upper(_)
Upper(s) ==
    IF Len(s) <= 1 THEN UpperChar(s)
    ELSE LET half == Len(s) \div 2
         IN  Upper(SubSeq(s, 1, half)) \o Upper(SubSeq(s, half + 1, Len(s)))

Built == pc = "built"
HasTicketKey == IssueKeyMatch(user_query) # Null
UpperKeyQuery == "issue = " \o Quoted(Upper(IssueKeyMatch(user_query)))

\* C2: for an utterance matching the ticket-key pattern both deterministic
\* builders emit exactly issue = "<KEY>" with the key upper-cased, hence
\* without an ORDER BY clause.
C2_TicketKeyGivesUpperCasedIssueQuery ==
    (Built /\ HasTicketKey) =>
        /\ jql = UpperKeyQuery
        /\ query_analysis.jql = UpperKeyQuery

\* C26: for one utterance and one project list, the query the except branch
\* of _analyze_query builds is the query _fallback_processing builds.
C26_BothFallbackBuildersAgree ==
    Built => query_analysis.jql = jql

\* C30: the query _fallback_processing builds names the assignee Ashwini Kumar
\* for an utterance holding 'ashwini', and Ashwin Thyagarajan for one holding
\* 'ashwin' but not 'ashwini'.
C30_EveryAliasSelectable ==
    Built =>
        IF Contains("ashwini", Lower(user_query))
        THEN Contains("assignee = \"Ashwini Kumar\"", jql)
        ELSE Contains("ashwin", Lower(user_query)) =>
                 Contains("assignee = \"Ashwin Thyagarajan\"", jql)

(***************************************************************************)
(* Properties of process_query, checked under Spec.                        *)
(***************************************************************************)
\* C1: once process_query has left its entry with an utterance that holds a
\* priority document keyword and a document client configured, it is in the
\* document branch or has searched the documents, whatever the rest of the
\* configuration, and no tracker request precedes the document search.
C1_PriorityKeywordSearchesDocumentsFirst ==
    (HasConfluencePriority(user_query) /\ confluence_client # "None"
        /\ pc # "start") =>
        /\ pc = "confluence" \/ doc_searches # <<>>
        /\ requests # <<>> => doc_searches # <<>>

\* The answer is that of a comparison.
ComparisonAnswered == pc = "done" /\ result.has_comparison_data

\* A request of the n-th query failed at transport level.
TransportFailed(n) ==
    \E i \in 1..Len(requests) :
        requests[i].query = n /\ requests[i].transport # "ok"

\* C6: when the search fails at transport level for one entity only of a
\* 2-entity comparison, the answer is a comparison in which the failed
\* entity's entry carries a non-empty error and the other entity's entry, its
\* query being a full fetch from a well-behaved server of T records, holds
\* the T records with count = retrieved_count = T.
C6_FailedEntityCarriesError ==
    \A failed, other \in {1, 2} :
        (ComparisonAnswered /\ Len(result.data) = 2 /\ failed # other
            /\ TransportFailed(failed) /\ ~TransportFailed(other)) =>
            /\ result.data[failed].error \notin {Absent, ""}
            /\ (~server[other].flaky
                    /\ ~IsCountOnly(result.data[other].jql, result.intent)) =>
                   /\ Len(result.data[other].results) = server[other].T
                   /\ result.data[other].count = Some(server[other].T)
                   /\ result.data[other].retrieved_count = server[other].T

\* The answer is the deterministic comparison summary.
DeterministicComparison ==
    /\ ComparisonAnswered
    /\ result.response.kind \in {"fallback_comparison", "comparison_completed"}

\* The ranking lists the entries in the order f, which sorts them by key,
\* largest first, entries of equal key staying in request order.
RanksBy(ranking, entries, f, key(_)) ==
    /\ \A i, j \in 1..Len(entries) : f[i] = f[j] => i = j
    /\ \A i \in 1..Len(entries) : ranking[i].entity = entries[f[i]].entity
    /\ \A i, j \in 1..Len(entries) :
          i < j => \/ key(entries[f[i]]) > key(entries[f[j]])
                   \/ key(entries[f[i]]) = key(entries[f[j]]) /\ f[i] < f[j]

\* The verdict for the two largest keys, top and next.
VerdictIs(response, top, next) ==
    /\ top > next => response.verdict = "winner" /\ response.difference = top - next
    /\ top = next => response.verdict = "tied"

ReportedCount(entry) == Val(entry.count)
FetchedCount(entry) == entry.retrieved_count

\* C10 as amended: the deterministic comparison summary ranks the entities by
\* their count, the total each entity's query reported, in descending order,
\* entities of equal count in request order; with two entities or more it
\* reports the top entity as winner with margin top count minus runner-up
\* count when the top count is strictly larger, and a tie when the two are
\* equal.  When an entity has no count the summary has no ranking.
C10_RanksByReportedTotal ==
    DeterministicComparison =>
        LET entries == result.data
            response == result.response
        IN  IF \E i \in 1..Len(entries) : IsNone(entries[i].count)
            THEN response.kind = "comparison_completed"
            ELSE /\ response.kind = "fallback_comparison"
                 /\ Len(response.ranking) = Len(entries)
                 /\ \E f \in [1..Len(entries) -> 1..Len(entries)] :
                       /\ RanksBy(response.ranking, entries, f, ReportedCount)
                       /\ \A i \in 1..Len(entries) :
                             response.ranking[i].count = ReportedCount(entries[f[i]])
                       /\ IF Len(entries) >= 2
                          THEN VerdictIs(response, ReportedCount(entries[f[1]]),
                                         ReportedCount(entries[f[2]]))
                          ELSE response.verdict = "none"

C10_Witness ==
    /\ DeterministicComparison
    /\ Len(result.data) = 2
    /\ result.data[1].count = Some(12) /\ result.data[1].retrieved_count = 12
    /\ result.data[2].count = Some(7) /\ result.data[2].retrieved_count = 7
    /\ result.response.ranking[1].entity = result.data[1].entity
    /\ result.response.verdict = "winner"
    /\ result.response.difference = 5

\* C10 as stated: the deterministic comparison summary ranks the entities by
\* the number of records fetched for each, in descending order, and reports
\* the winner and its margin, or the tie, by those numbers.
C10_RanksByFetchedCount ==
    (DeterministicComparison /\ result.response.kind = "fallback_comparison") =>
        LET entries == result.data
            response == result.response
        IN  \E f \in [1..Len(entries) -> 1..Len(entries)] :
               /\ RanksBy(response.ranking, entries, f, FetchedCount)
               /\ Len(entries) >= 2 =>
                     VerdictIs(response, FetchedCount(entries[f[1]]),
                               FetchedCount(entries[f[2]]))

\* process_query has answered after searching the documents.
DocumentsAnswered == pc = "done" /\ doc_searches # <<>>

\* C13: when the documents are searched, an answer from hits is the document
\* answer; after zero hits a tracker query is built and executed, and the
\* answer is labelled jira_fallback and returns the records when the query
\* returned at least one, no_results when it returned none, and
\* fallback_error only when the fallback raised before its query returned.
C13_DocumentFallbackProvenance ==
    DocumentsAnswered =>
        IF frame # "docs"
        THEN result.intent = "confluence_search" /\ result.data # <<>>
        ELSE /\ (cur = 1 /\ jql_result.results # <<>>) =>
                    /\ result.source = "jira_fallback"
                    /\ result.data = jql_result.results
             /\ (cur = 1 /\ jql_result.results = <<>>) =>
                    result.source = "no_results"
             /\ result.source = "fallback_error" => cur = 0

\* C14: with no document client configured process_query never searches the
\* documents nor enters the document branch, whatever the routing rules give
\* for the utterance, and its answer is none of the answers of the document
\* branch: it is not labelled no_results or fallback_error and is no
\* document error.
C14_NoDocumentClientMeansTracker ==
    confluence_client = "None" =>
        /\ doc_searches = <<>>
        /\ pc \notin ConfluencePcs
        /\ frame # "docs"
        /\ pc = "done" =>
              /\ result.source \notin {"no_results", "fallback_error"}
              /\ result.intent \notin
                    {"confluence_search", "confluence_error", "fallback_error"}
              /\ query_analysis # NoAnalysis \/ projects # <<>> \/ requests # <<>>
                    \/ result.response.kind = "error"

C14_Witness ==
    /\ confluence_client = "None"
    /\ client = "OpenAI"
    /\ HasConfluencePriority(user_query)
    /\ pc = "done"
    /\ requests # <<>>
    /\ result.success
    /\ result.data # <<>>

\* C15: a request served from an empty context has appended exactly one
\* turn when it ends with a successful answer and none when it ends with a
\* failed one, and it appends nothing before it ends.
C15_OneTurnPerSuccessfulRequest ==
    /\ pc # "done" => conversation_context = <<>>
    /\ pc = "done" =>
          Len(conversation_context) = (IF result.success THEN 1 ELSE 0)

\* C17: whatever the utterance and whichever collaborators are missing or
\* fail, process_query ends by returning a value, never by an exception that
\* leaves it, and the value it returns holds a response.
C17_ProcessQueryAlwaysAnswers ==
    pc = "done" => result # NoAnswer /\ result.response.kind # "none"

C17_Witness ==
    /\ pc = "done"
    /\ \E i \in 1..Len(doc_searches) : doc_searches[i].raises
    /\ \E i \in 1..Len(requests) : requests[i].transport # "ok"
    /\ result.response.kind # "none"

\* C18: once _analyze_query has returned, the structured query it returned
\* carries a query, the key 'jql' being there, whatever the
\* language-understanding call did.
C18_AnalysisCarriesQuery ==
    pc = "analyzed" => query_analysis.has_jql

\* C19: the response of a returned answer is never empty: when it holds the
\* text of the text-generation service, that text, stripped, is not the empty
\* string, the templated sentence standing in for an empty one.
C19_ResponseTextNeverEmpty ==
    pc = "done" /\ result.response.kind \in {"llm", "llm_dict"}
        => result.response.content # ""

\* process_query has answered a single query that ran count-only and for
\* which the tracker reported a positive total.
CountOnlyAnswered ==
    /\ pc = "done" /\ frame = "single" /\ result.success
    /\ result.intent \in CountIntents
    /\ jql_result.is_count_only
    /\ ~IsNone(jql_result.total_count) /\ Val(jql_result.total_count) > 0

\* C29: for a single count-only query with reported total N > 0, the data
\* summary handed to text generation is not the sentence for no matches, and
\* the templated answer given when generation fails states the N items.
C29_CountOnlyAnswerStatesTotal ==
    CountOnlyAnswered =>
        /\ data_summary.text # "No matching items found."
        /\ result.response.kind = "basic" =>
              result.response.content =
                  "Found " \o ToString(Val(jql_result.total_count))
                      \o " matching items."

(***************************************************************************)
(* Properties of the routing decision, checked under SpecRoute.            *)
(***************************************************************************)
\* process_query has left its entry with both clients configured: it is in
\* the document branch or in the tracker branch.
Routed == pc # "start" /\ client # "None" /\ confluence_client # "None"
ToDocuments == pc = "confluence"
ToTracker == pc = "analyze" /\ frame = "main"

\* The utterance, lower-cased, holds one of the words.
Mentions(words) == \E w \in words : Contains(w, Lower(user_query))

\* C24: an utterance holding a general document keyword and a tracker
\* keyword, and neither a priority keyword nor a check phrase, goes to the
\* tracker.
C24_DocumentAndTrackerKeywordsGoToTracker ==
    (Routed
        /\ Mentions({"confluence", "documentation", "wiki", "page", "article",
                     "knowledge base", "doc", "guide", "manual", "tutorial"})
        /\ Mentions({"issue", "bug", "task", "story", "epic", "sprint",
                     "ticket", "jira", "assignee", "reporter", "status",
                     "priority"})
        /\ ~Mentions(ConfluencePriorityKeywords)
        /\ ~Mentions(ConfluenceCheckPhrases)) => ToTracker

\* The generic document nouns are the only rule group the utterance matches.
OnlyDocumentNouns ==
    /\ Mentions({"results", "report", "analysis", "findings", "study",
                 "research", "data", "information", "content"})
    /\ ~Mentions(ConfluencePriorityKeywords)
    /\ ~Mentions(ConfluenceCheckPhrases)
    /\ ~Mentions(ConfluenceKeywords)
    /\ ~Mentions(ConfluencePatterns)

\* C25: an utterance matching the generic document nouns only goes to the
\* documents exactly when it holds no tracker keyword, no '=' and no '-', and
\* to the tracker otherwise.
C25_DocumentNounsUnlessTrackerOrPunctuation ==
    (Routed /\ OnlyDocumentNouns) =>
        /\ ToDocuments <=> /\ ~Mentions(JiraKeywords)
                           /\ ~Mentions({"=", "-"})
        /\ ToDocuments \/ ToTracker

C25_Witness ==
    /\ Routed /\ OnlyDocumentNouns
    /\ ~Mentions(JiraKeywords)
    /\ Mentions({"="}) /\ ~Mentions({"-"})
    /\ ToTracker

(***************************************************************************)
(* Properties of the conversation context, checked under SpecChat.         *)
(***************************************************************************)
\* The turns handed to add_context so far, in order.
Appended == [i \in 1..Len(history) |-> history[i].turn]

\* The n newest elements of seq, oldest first.
Newest(seq, n) ==
    LET k == Min(n, Len(seq))
    IN  [i \in 1..k |-> seq[Len(seq) - k + i]]

\* C11: after any sequence of add_context calls, from process_query or from
\* the seeding of the chat endpoint, the conversation context holds at most
\* 10 turns, which are the most recently appended ones in append order, and
\* the window the query builder read is the 3 newest turns of the context at
\* the time of the read, oldest first.
C11_ContextKeepsNewestTenWindowNewestThree ==
    /\ Len(conversation_context) <= 10
    /\ conversation_context = Newest(Appended, 10)
    /\ \A s \in Sessions :
          chat[s].route = "tracker" =>
              chat[s].recent_context =
                  Newest(SubSeq(Appended, 1, chat[s].read_at), 3)

C11_Witness ==
    /\ Len(history) = 11
    /\ Appended[1] # Appended[2]
    /\ conversation_context[1] = Appended[2]
    /\ \E s \in Sessions :
          /\ chat[s].route = "tracker"
          /\ chat[s].read_at = 11
          /\ chat[s].recent_context = <<Appended[9], Appended[10], Appended[11]>>

\* C16: the window of the conversation context that the query builder reads
\* for a request holds only turns that were appended while serving requests of
\* the same session.
C16_WindowHoldsOwnSessionOnly ==
    \A s \in Sessions :
        chat[s].route = "tracker" =>
            \A i \in 1..chat[s].read_at :
                i > chat[s].read_at - 3 => history[i].session = s

\* The positions, among the first n turns handed to add_context, of the
\* turns that process_query appended for request r.
TurnsOf(r, n) ==
    {i \in 1..n : history[i].request = r /\ history[i].caller = "process_query"}

\* C27: when the query builder has read its window for a request, the turn
\* that the request answered last before the read had appended is one of the
\* turns of the window, whatever the new request carried.
C27_WindowHoldsPreviousAnswer ==
    \A s \in Sessions :
        (chat[s].route = "tracker" /\ chat[s].previous # 0) =>
            \A i \in TurnsOf(chat[s].previous, chat[s].read_at) :
                \E k \in 1..Len(chat[s].recent_context) :
                    chat[s].recent_context[k] = history[i].turn

(***************************************************************************)
(* Properties of the application state, checked under SpecApp.             *)
(***************************************************************************)
\* C28: a chat request that was processed ran its queries on the tracker
\* client stored in the application state when it was received.
C28_ChatUsesStoredClient ==
    \A i \in 1..Len(app_state.chats) :
        app_state.chats[i].used # 0 =>
            app_state.chats[i].used = app_state.chats[i].stored

====
